---- MODULE Spec2Model ----
(***************************************************************************)
(* Product-photo enhancer: canvas compositing (applyTitle, applyWatermark) *)
(* from src/utils/fileUtils.ts, and the App component's usage counters,    *)
(* enhancement request and finalization pipeline from src/unnamed/part_001.*)
(*                                                                         *)
(* Numbers that JavaScript keeps as doubles are kept exact here: a length  *)
(* or coordinate is a pair <<num, den>> meaning num/den.  A text is a      *)
(* sequence of one-character strings.  An ISO date string "YYYY-MM-DD" is  *)
(* the triple <<y, m, d>> (what split('-').map(Number) yields).            *)
(***************************************************************************)
EXTENDS Integers, Sequences, FiniteSets, TLC

VARIABLES
    titleCall,      \* arguments and environment of one applyTitle call
    titleOut,       \* how that call's promise settled, and what it drew
    wmCall,         \* arguments and environment of one applyWatermark call
    wmOut,          \* how that call's promise settled, and what it drew
    now,            \* the clock: hours since 2023-12-01T00:00Z
    tz,             \* the browser's timezone, hours east of UTC
    storage,        \* localStorage['vongtinhImageEnhancerStats']
    usageStats,     \* the App's usageStats state
    mounted,        \* the App's mount effects have run
    ticksLeft,      \* how often the clock may still advance
    calls,          \* history: completed incrementUsage calls per local day number
    storage0,       \* history: the stored value the App was started with
    statsAt,        \* history: the clock value when usageStats was last computed
    escaped,        \* history: an exception has escaped incrementUsage
    appVersion,             \* which App component runs: 1 (part_001:1-448) or 2 (449-1004)
    imageFile,              \* App state: the selected product file
    backgroundStyle,        \* App state: backgroundOptions.style
    backgroundImageFile,    \* App state: the uploaded background file
    watermarkFile,          \* App state: the selected watermark file
    enhancedImage,          \* App state: the image the model returned
    finalImage,             \* App state: the composited image on display
    loading,                \* App state: an enhancement is in progress
    error,                  \* App state: the message of the error banner
    requests,       \* the enhanceImage calls that have not settled
    runs,           \* the processImageFinalization calls that have not ended
    submitted,      \* history: enhanceImage calls made
    runsStarted,    \* history: processImageFinalization calls made
    okCount,        \* history: enhanceImage calls that returned an image
    enhanceState,   \* the enhanceImage call of the request in flight, await by await
    objectUrls      \* the preview URL state of the second App and the object URLs alive

titleVars == <<titleCall, titleOut>>
wmVars == <<wmCall, wmOut>>
clockVars == <<now, tz, ticksLeft>>
usageVars == <<storage, usageStats, mounted, calls, storage0, statsAt, escaped>>

formVars == <<appVersion, imageFile, backgroundStyle, backgroundImageFile, watermarkFile>>
viewVars == <<enhancedImage, finalImage, loading, error>>
taskVars == <<requests, runs, submitted, runsStarted, okCount>>
appVars == <<formVars, viewVars, taskVars>>

enhanceVars == <<enhanceState>>
urlVars == <<objectUrls>>

vars == <<titleVars, wmVars, clockVars, usageVars, appVars, enhanceVars, urlVars>>

(***************************************************************************)
(* Bounds of the model.                                                    *)
(***************************************************************************)
MaxTextLen == 2
MaxTicks == 4
MaxCalls == 4

(***************************************************************************)
(* Small helpers.                                                          *)
(***************************************************************************)
Max(a, b) == IF a >= b THEN a ELSE b

Abs(a) == IF a >= 0 THEN a ELSE 0 - a

\* Math.ceil(a / b) for a >= 0, b > 0
CeilDiv(a, b) == (a + b - 1) \div b

\* The strings of length at most n over the characters cs.
RECURSIVE TextsUpTo(_, _)
TextsUpTo(cs, n) ==
    IF n = 0 THEN {<<>>}
    ELSE LET shorter == TextsUpTo(cs, n - 1)
         IN  shorter \cup {Append(t, c) : t \in shorter, c \in cs}

(***************************************************************************)
(* String operations used by applyTitle.                                   *)
(***************************************************************************)
Chars == {"a", " "}

IsWhitespace(c) == c = " "

\* String.prototype.trim
RECURSIVE TrimStart(_)
TrimStart(s) ==
    IF s # <<>> /\ IsWhitespace(Head(s)) THEN TrimStart(Tail(s)) ELSE s

RECURSIVE TrimEnd(_)
TrimEnd(s) ==
    IF s # <<>> /\ IsWhitespace(s[Len(s)])
    THEN TrimEnd(SubSeq(s, 1, Len(s) - 1))
    ELSE s

Trim(s) == TrimEnd(TrimStart(s))

UpperChar(c) == IF c = "a" THEN "A" ELSE c

\* String.prototype.toUpperCase
ToUpperCase(s) == [i \in 1..Len(s) |-> UpperChar(s[i])]

\* Array.prototype.join(' ')
RECURSIVE JoinSpace(_)
JoinSpace(texts) ==
    IF texts = <<>> THEN <<>>
    ELSE IF Len(texts) = 1 THEN texts[1]
    ELSE texts[1] \o <<" ">> \o JoinSpace(Tail(texts))

(***************************************************************************)
(* ctx.measureText: the advance width of a text is the sum of its glyph    *)
(* advances, which scale linearly with the font size.  Advances are in     *)
(* font units, UnitsPerEm to the em.                                       *)
(***************************************************************************)
UnitsPerEm == 1000

GlyphAdvance(c) ==
    CASE c = "A" -> 600
      [] c = "a" -> 480
      [] c = " " -> 250
      [] OTHER   -> 500

RECURSIVE TextUnits(_)
TextUnits(s) == IF s = <<>> THEN 0 ELSE GlyphAdvance(Head(s)) + TextUnits(Tail(s))

\* measureText(text).width at font size sizeNum/sizeDen px, as <<num, den>>
MeasureText(text, sizeNum, sizeDen) == <<sizeNum * TextUnits(text), sizeDen * UnitsPerEm>>


(***************************************************************************)
(* applyTitle (src/utils/fileUtils.ts:25-177).                             *)
(***************************************************************************)
MaxFontSize == 200
MinFontSize == 10
TitleMargin == 80
TitleTop == 25
MinSubtitleSize == 20

\* What the promise of a canvas call is before the image's onload/onerror.
Pending ==
    [status |-> "pending", error |-> "none", canvasW |-> 0, canvasH |-> 0,
     sx |-> <<0, 1>>, sy |-> <<0, 1>>, sw |-> <<0, 1>>, sh |-> <<0, 1>>,
     fontSize |-> 0, ops |-> <<>>]

\* every rejection reported as a failed load
RejectedAsLoad(err) == [Pending EXCEPT !.status = "rejected", !.error = "load"]

Rejected(err) == [Pending EXCEPT !.status = "rejected", !.error = err]

\* Assigning a non-negative double to canvas.width / canvas.height keeps its
\* integer part (the attribute is an unsigned long).
ToCanvasSize(r) == r[1] \div r[2]

\* CropRect with the crop anchored at the image's far edge: the margin is not
\* halved (sourceX = originalWidth - sourceWidth).
CropRectNotHalved(natW, natH, targetW, targetH) ==
    IF natW * targetH > targetW * natH THEN
        [sx |-> <<natW * targetH - natH * targetW, targetH>>, sy |-> <<0, 1>>,
         sw |-> <<natH * targetW, targetH>>, sh |-> <<natH, 1>>]
    ELSE IF natW * targetH < targetW * natH THEN
        [sx |-> <<0, 1>>, sy |-> <<natH * targetW - natW * targetH, targetW>>,
         sw |-> <<natW, 1>>, sh |-> <<natW * targetH, targetW>>]
    ELSE
        [sx |-> <<0, 1>>, sy |-> <<0, 1>>, sw |-> <<natW, 1>>, sh |-> <<natH, 1>>]

\* fileUtils.ts:49-67: the source rectangle of the centered crop.
CropRect(natW, natH, targetW, targetH) ==
    IF natW * targetH > targetW * natH THEN
        [sx |-> <<natW * targetH - natH * targetW, 2 * targetH>>, sy |-> <<0, 1>>,
         sw |-> <<natH * targetW, targetH>>, sh |-> <<natH, 1>>]
    ELSE IF natW * targetH < targetW * natH THEN
        [sx |-> <<0, 1>>, sy |-> <<natH * targetW - natW * targetH, 2 * targetW>>,
         sw |-> <<natW, 1>>, sh |-> <<natW * targetH, targetW>>]
    ELSE
        [sx |-> <<0, 1>>, sy |-> <<0, 1>>, sw |-> <<natW, 1>>, sh |-> <<natH, 1>>]

\* fileUtils.ts:87: p.text && p.text.trim() !== ''
IsValidPart(p) == p.text # <<>> /\ Trim(p.text) # <<>>

\* HasSubtitle without the trim: a whitespace-only subtitle counts as text.
HasSubtitleUntrimmed(sub) == sub.defined /\ sub.text # <<>>

\* fileUtils.ts:89: subtitleOptions && subtitleOptions.text.trim() !== ''
HasSubtitle(sub) == sub.defined /\ Trim(sub.text) # <<>>

\* fileUtils.ts:104-110: the sizes hi, hi - 1, ..., lo are measured in this
\* order and the first at which the text fits ends the loop; lo - 1 when none
\* fits.  (The scan is split in halves to keep the evaluation shallow.)
RECURSIVE ScanDown(_, _, _, _)
ScanDown(hi, lo, textUnits, maxWidth) ==
    IF hi < lo THEN lo - 1
    ELSE IF hi = lo
    THEN IF hi * textUnits <= maxWidth * UnitsPerEm THEN hi ELSE lo - 1
    ELSE LET mid   == (hi + lo + 1) \div 2
             upper == ScanDown(hi, mid, textUnits, maxWidth)
         IN  IF upper >= mid THEN upper
             ELSE ScanDown(mid - 1, lo, textUnits, maxWidth)

\* FitFontSize with the loop starting one size too low (fontSize = 199).
FitFontSizeFrom199(fullText, maxWidth) ==
    ScanDown(MaxFontSize - 1, MinFontSize + 1, TextUnits(fullText), maxWidth)

\* fileUtils.ts:103-111: let fontSize = 200; while (fontSize > 10) { if the
\* text fits, break; fontSize-- }.  Size 10 is never measured.
FitFontSize(fullText, maxWidth) ==
    ScanDown(MaxFontSize, MinFontSize + 1, TextUnits(fullText), maxWidth)

\* A fillText call; x is xNum / xDen, y is y10 / 10, the font size is
\* size100 / 100 px.
FillText(text, xNum, xDen, y10, weight, size100, color, shadow) ==
    [text |-> text, xNum |-> xNum, xDen |-> xDen, y10 |-> y10, weight |-> weight,
     size100 |-> size100, color |-> color, shadow |-> shadow]

\* fileUtils.ts:123-127: the extrusion layers of one part, i = from..depth
RECURSIVE Extrusion(_, _, _, _, _)
Extrusion(partText, curX, fontSize, i, depth) ==
    IF i > depth THEN <<>>
    ELSE <<FillText(partText, curX + i * 2 * UnitsPerEm, 2 * UnitsPerEm, (TitleTop + i) * 10,
                    800, fontSize * 100, "rgba(0,0,0,0.6)", "none")>>
         \o Extrusion(partText, curX, fontSize, i + 1, depth)

\* fileUtils.ts:120-147: draw the parts left to right; curX is in units of
\* 1 / (2 * UnitsPerEm) px.
RECURSIVE DrawParts(_, _, _)
DrawParts(validParts, curX, fontSize) ==
    IF validParts = <<>> THEN <<>>
    ELSE LET part     == Head(validParts)
             partText == ToUpperCase(part.text)
             depth    == Max(2, CeilDiv(fontSize, 35))
             advance  == 2 * fontSize * TextUnits(partText)
             space    == IF Len(validParts) > 1
                         THEN 2 * fontSize * TextUnits(<<" ">>) ELSE 0
         IN  Extrusion(partText, curX, fontSize, 1, depth)
             \o <<FillText(partText, curX, 2 * UnitsPerEm, TitleTop * 10, 800,
                           fontSize * 100, part.color, "drop")>>
             \o DrawParts(Tail(validParts), curX + advance + space, fontSize)

\* fileUtils.ts:100-148
DrawTitle(validParts, fontFamily, canvasW, fontSize) ==
    LET fullText == JoinSpace([i \in 1..Len(validParts) |-> ToUpperCase(validParts[i].text)])
        curX     == canvasW * UnitsPerEm - fontSize * TextUnits(fullText)
    IN  DrawParts(validParts, curX, fontSize)

\* fileUtils.ts:150-170
DrawSubtitle(sub, hasTitle, titleFontSize, canvasW, canvasH) ==
    LET base100 == IF hasTitle THEN titleFontSize * 100 ELSE canvasH * 10
        size100 == Max(MinSubtitleSize * 100, (base100 * 4) \div 10)
        xNum    == canvasW * 100 * UnitsPerEm - size100 * TextUnits(sub.text)
        y10     == TitleTop * 10 + (IF hasTitle THEN titleFontSize * 11 ELSE 0)
    IN  <<FillText(sub.text, xNum, 200 * UnitsPerEm, y10, 600, size100,
                   sub.color, "offset")>>

\* fileUtils.ts:37-175: the promise's settlement.
applyTitle(call) ==
    IF ~call.loads THEN Rejected("load")
    ELSE IF ~call.hasContext THEN Rejected("context")
    ELSE IF call.ratio[1] = 0 \/ call.ratio[2] = 0 THEN Rejected("aspectRatio")
    ELSE
      LET rect       == CropRect(call.natW, call.natH, call.ratio[1], call.ratio[2])
          canvasW    == ToCanvasSize(rect.sw)
          canvasH    == ToCanvasSize(rect.sh)
          validParts == SelectSeq(call.titleParts, IsValidPart)
          hasTitle   == Len(validParts) > 0
          hasSub     == HasSubtitle(call.subtitle)
          fullText   == JoinSpace([i \in 1..Len(validParts) |->
                                       ToUpperCase(validParts[i].text)])
          fontSize   == IF hasTitle
                        THEN FitFontSize(fullText, canvasW - TitleMargin)
                        ELSE 0
          titleOps   == IF hasTitle
                        THEN DrawTitle(validParts, call.fontFamily, canvasW, fontSize)
                        ELSE <<>>
          subOps     == IF hasSub
                        THEN DrawSubtitle(call.subtitle, hasTitle, fontSize, canvasW, canvasH)
                        ELSE <<>>
      IN  [status |-> "resolved", error |-> "none",
           canvasW |-> canvasW, canvasH |-> canvasH,
           sx |-> rect.sx, sy |-> rect.sy, sw |-> rect.sw, sh |-> rect.sh,
           fontSize |-> fontSize,
           ops |-> IF ~hasTitle /\ ~hasSub THEN <<>> ELSE titleOps \o subOps]


(***************************************************************************)
(* applyWatermark (src/utils/fileUtils.ts:181-264).                        *)
(***************************************************************************)
WatermarkPadding == 20

WmPending ==
    [status |-> "pending", error |-> "none", canvasW |-> 0, canvasH |-> 0,
     x |-> <<0, 1>>, y |-> <<0, 1>>, w |-> <<0, 1>>, h |-> <<0, 1>>, alpha100 |-> 0,
     drawn |-> FALSE, urlsCreated |-> 0, urlsRevoked |-> 0]

\* WatermarkHeight multiplying by the aspect ratio instead of dividing by it.
WatermarkHeightMultiplied(width, wmW, wmH) == <<width[1] * wmW, width[2] * wmH>>

\* fileUtils.ts:217-219: watermarkWidth / (naturalWidth / naturalHeight)
WatermarkHeight(width, wmW, wmH) == <<width[1] * wmH, width[2] * wmW>>

\* fileUtils.ts:218: baseImage.naturalWidth * size, size in hundredths
WatermarkWidth(natW, size100) == <<natW * size100, 100>>

\* fileUtils.ts:226-244; any other value takes the default branch
WatermarkOrigin(position, canvasW, canvasH, w, h) ==
    LET left   == <<WatermarkPadding, 1>>
        top    == <<WatermarkPadding, 1>>
        right  == <<(canvasW - WatermarkPadding) * w[2] - w[1], w[2]>>
        bottom == <<(canvasH - WatermarkPadding) * h[2] - h[1], h[2]>>
    IN  CASE position = "topLeft"    -> [x |-> left,  y |-> top]
          [] position = "topRight"   -> [x |-> right, y |-> top]
          [] position = "bottomLeft" -> [x |-> left,  y |-> bottom]
          [] OTHER                   -> [x |-> right, y |-> bottom]

\* fileUtils.ts:193-197: the base image decoded; an object URL is created for
\* the watermark file and the watermark image starts loading
WatermarkBaseLoaded(out) == [out EXCEPT !.status = "loadingWatermark", !.urlsCreated = @ + 1]

\* fileUtils.ts:199-254: watermarkImage.onload
WatermarkLoaded(call, out) ==
    IF ~call.hasContext
    THEN [out EXCEPT !.status = "rejected", !.error = "context", !.urlsRevoked = @ + 1]
    ELSE LET w   == WatermarkWidth(call.natW, call.size100)
             h   == WatermarkHeight(w, call.wmW, call.wmH)
             pos == WatermarkOrigin(call.position, call.natW, call.natH, w, h)
         IN  [out EXCEPT !.status = "resolved", !.canvasW = call.natW,
                         !.canvasH = call.natH, !.x = pos.x, !.y = pos.y, !.w = w,
                         !.h = h, !.alpha100 = call.opacity100, !.drawn = TRUE,
                         !.urlsRevoked = @ + 1]

\* fileUtils.ts:256-259: watermarkImage.onerror
WatermarkFailed(out) ==
    [out EXCEPT !.status = "rejected", !.error = "load", !.urlsRevoked = @ + 1]

(***************************************************************************)
(* Dates (src/unnamed/part_001:30-34, 75-94, 118).  A Date is its time      *)
(* value, here in hours since the epoch 2023-12-01T00:00Z.                 *)
(***************************************************************************)
Epoch == <<2023, 12>>
HoursPerDay == 24

IsLeapYear(y) == (y % 4 = 0 /\ y % 100 # 0) \/ y % 400 = 0

DaysInMonth(y, m) ==
    IF m = 2 THEN (IF IsLeapYear(y) THEN 29 ELSE 28)
    ELSE IF m \in {4, 6, 9, 11} THEN 30 ELSE 31

\* the civil date <<y, m, d>> that lies n >= 0 days after the first of month m
RECURSIVE CivilFrom(_, _, _)
CivilFrom(y, m, n) ==
    IF n < DaysInMonth(y, m) THEN <<y, m, n + 1>>
    ELSE IF m = 12 THEN CivilFrom(y + 1, 1, n - DaysInMonth(y, m))
    ELSE CivilFrom(y, m + 1, n - DaysInMonth(y, m))

\* the civil date of day number n (day 0 is the epoch's day)
CivilFromDays(n) == CivilFrom(Epoch[1], Epoch[2], n)

\* the day number of the first day of month m of year y
RECURSIVE MonthStart(_, _, _, _)
MonthStart(y, m, fromY, fromM) ==
    IF y = fromY /\ m = fromM THEN 0
    ELSE DaysInMonth(fromY, fromM)
         + (IF fromM = 12 THEN MonthStart(y, m, fromY + 1, 1)
            ELSE MonthStart(y, m, fromY, fromM + 1))

\* Date.prototype.toISOString().split('T')[0]: the UTC calendar date
ToISODate(t) == CivilFromDays(t \div HoursPerDay)

\* Date.prototype.getTimezoneOffset, in hours: UTC minus local time
GetTimezoneOffset == 0 - tz

\* the local calendar fields of a Date: getFullYear, getMonth (0-based), getDate
LocalCivil(t) == CivilFromDays((t + tz) \div HoursPerDay)
GetFullYear(t) == LocalCivil(t)[1]
GetMonth(t) == LocalCivil(t)[2] - 1
GetDate(t) == LocalCivil(t)[3]

\* SetDate without the roll-over into the neighbouring month: day 0 or -1 of
\* a month is taken for the day 1 of the same month.
SetDateClamped(t, dayOfMonth) ==
    LET c    == LocalCivil(t)
        hour == (t + tz) % HoursPerDay
        day  == MonthStart(c[1], c[2], Epoch[1], Epoch[2]) + Max(dayOfMonth, 1) - 1
    IN  day * HoursPerDay + hour - tz

\* Date.prototype.setDate: the day of the month is replaced in local time and
\* the date is normalised, so day 0 is the last day of the month before
SetDate(t, dayOfMonth) ==
    LET c    == LocalCivil(t)
        hour == (t + tz) % HoursPerDay
        day  == MonthStart(c[1], c[2], Epoch[1], Epoch[2]) + dayOfMonth - 1
    IN  day * HoursPerDay + hour - tz

\* part_001:30-34
getISODateString(t) ==
    LET offset   == GetTimezoneOffset
        adjusted == t - offset
    IN  ToISODate(adjusted)

(***************************************************************************)
(* The stored statistics.  A stored value is absent, text that JSON.parse  *)
(* rejects, or the JSON text of a value; the value is kept with its kind:  *)
(*   "stats"     { total, dailyCounts: { date: count } }                   *)
(*   "old"       { today: { date, count }, total }                         *)
(*   "totalOnly" { total }                                                 *)
(*   "badmap"    { total, dailyCounts: <a non-zero number> }               *)
(*   "null", "number"   the JSON values null and a number                  *)
(***************************************************************************)
NoCounts == [d \in {} |-> 0]

Stored(kind, total, dailyCounts, today) ==
    [kind |-> kind, total |-> total, dailyCounts |-> dailyCounts, today |-> today]

NoToday == [date |-> <<0, 0, 0>>, count |-> 0]

Absent == Stored("absent", 0, NoCounts, NoToday)
Garbage == Stored("garbage", 0, NoCounts, NoToday)
JsonNull == Stored("null", 0, NoCounts, NoToday)
JsonNumber == Stored("number", 0, NoCounts, NoToday)
StatsRecord(total, dailyCounts) == Stored("stats", total, dailyCounts, NoToday)
OldRecord(date, count, total) == Stored("old", total, NoCounts, [date |-> date, count |-> count])

\* dailyCounts[key] || 0
CountAt(dailyCounts, key) == IF key \in DOMAIN dailyCounts THEN dailyCounts[key] ELSE 0

RECURSIVE SumCounts(_, _)
SumCounts(dailyCounts, keys) ==
    IF keys = {} THEN 0
    ELSE LET k == CHOOSE x \in keys : TRUE
         IN  dailyCounts[k] + SumCounts(dailyCounts, keys \ {k})

\* part_001:72-73: data?.dailyCounts || {} and data?.total || 0
DailyCountsOf(data) == IF data.kind = "stats" THEN data.dailyCounts ELSE NoCounts
TotalOf(data) == IF data.kind \in {"stats", "old", "totalOnly", "badmap"} THEN data.total ELSE 0

\* calculateStats summing six days instead of seven
Last7DaysShort(dailyCounts, t) ==
    SumCounts([i \in 0..5 |-> CountAt(dailyCounts, getISODateString(SetDate(t, GetDate(t) - i)))],
              0..5)

\* part_001:82-87
Last7Days(dailyCounts, t) ==
    SumCounts([i \in 0..6 |-> CountAt(dailyCounts, getISODateString(SetDate(t, GetDate(t) - i)))],
              0..6)

\* part_001:89-97
ThisMonth(dailyCounts, t) ==
    SumCounts(dailyCounts,
              {k \in DOMAIN dailyCounts : k[1] = GetFullYear(t) /\ k[2] - 1 = GetMonth(t)})

\* part_001:71-106, called at clock value t
calculateStats(data, t) ==
    LET dailyCounts == DailyCountsOf(data)
    IN  [today     |-> CountAt(dailyCounts, getISODateString(t)),
         yesterday |-> CountAt(dailyCounts, getISODateString(SetDate(t, GetDate(t) - 1))),
         last7Days |-> Last7Days(dailyCounts, t),
         thisMonth |-> ThisMonth(dailyCounts, t),
         total     |-> TotalOf(data)]

\* a migration that carries the old today field over into the new record
MigratedKeepingToday(old, t) ==
    Stored("stats", old.total, NoCounts, old.today)

\* part_001:115-129: the migration of an old-shape record
Migrated(old, t) ==
    LET todayDateObj == ToISODate(t)
    IN  StatsRecord(old.total,
                    IF old.today.date = todayDateObj
                    THEN [d \in {old.today.date} |-> old.today.count]
                    ELSE NoCounts)

\* part_001:108-138: the load effect; what is stored afterwards, and the value
\* handed to calculateStats
LoadedStorage(raw, t) ==
    CASE raw.kind \in {"garbage", "null"} -> Absent
      [] raw.kind = "old"                 -> Migrated(raw, t)
      [] OTHER                            -> raw

LoadedStats(raw, t) ==
    CASE raw.kind \in {"absent", "garbage"} -> calculateStats(Absent, t)
      [] raw.kind = "old"                   -> calculateStats(Migrated(raw, t), t)
      [] OTHER                              -> calculateStats(raw, t)

\* incrementUsage without the spread of the earlier counts
IncrementedTodayOnly(raw, t) ==
    LET todayStr == getISODateString(t)
    IN  StatsRecord(TotalOf(raw) + 1,
                    [d \in {todayStr} |-> CountAt(DailyCountsOf(raw), todayStr) + 1])

\* incrementUsage adding the count under the UTC date
IncrementedUtc(raw, t) ==
    LET todayStr == ToISODate(t)
        counts   == DailyCountsOf(raw)
    IN  StatsRecord(TotalOf(raw) + 1,
                    [d \in DOMAIN counts \cup {todayStr} |->
                        IF d = todayStr THEN CountAt(counts, todayStr) + 1 ELSE counts[d]])

\* part_001:152-163: newStatsToStore for a value that parsed to an object, or
\* for the fresh record when nothing usable is stored
Incremented(raw, t) ==
    LET todayStr == getISODateString(t)
        counts   == DailyCountsOf(raw)
    IN  StatsRecord(TotalOf(raw) + 1,
                    [d \in DOMAIN counts \cup {todayStr} |->
                        IF d = todayStr THEN CountAt(counts, todayStr) + 1 ELSE counts[d]])

\* part_001:141-157: JSON.parse gave null or a number: the catch block keeps
\* the parsed value in currentStats, and reading currentStats.total (null) or
\* currentStats.dailyCounts[todayStr] (number) throws a TypeError
IncrementThrows(raw) == raw.kind \in {"null", "number"}

(***************************************************************************)
(* enhanceImage (src/unnamed/part_000:43-115).  A response of the model is *)
(* its list of candidates; a part carries inline image data, text, or      *)
(* neither.                                                                *)
(***************************************************************************)
NoImage == [src |-> "none", stages |-> <<>>, wm |-> "none", wmSelected |-> "none"]

\* the data URL built from the returned payload (part_001:250)
EnhancedFrom(file) == [NoImage EXCEPT !.src = file]

ImagePart(data) == [hasInlineData |-> TRUE, data |-> data, text |-> <<>>]
TextPart(text) == [hasInlineData |-> FALSE, data |-> "", text |-> text]

Candidate(finishReason, hasContent, parts) ==
    [finishReason |-> finishReason, hasContent |-> hasContent, parts |-> parts]

\* a thrown Error: its kind, and what its message quotes
Threw(message, reason, text) ==
    [ok |-> FALSE, data |-> "", message |-> message, reason |-> reason, text |-> text]
Returned(data) == [ok |-> TRUE, data |-> data, message |-> "", reason |-> "", text |-> <<>>]

\* every finish reason counted as a normal completion
FinishedNormallyAlways(finishReason) == TRUE

\* part_000:85: no finish reason, STOP or MAX_TOKENS lets the response through
FinishedNormally(finishReason) == finishReason \in {"", "STOP", "MAX_TOKENS"}

\* the last part that carries inline data
LastInlinePart(parts, i) ==
    IF \E k \in i..Len(parts) : parts[k].hasInlineData
    THEN CHOOSE k \in i..Len(parts) :
            /\ parts[k].hasInlineData
            /\ \A j \in (k + 1)..Len(parts) : ~parts[j].hasInlineData
    ELSE 0

\* part_000:90-94: the position of the first part that carries inline data,
\* 0 when there is none
RECURSIVE FirstInlinePart(_, _)
FirstInlinePart(parts, i) ==
    IF i > Len(parts) THEN 0
    ELSE IF parts[i].hasInlineData THEN i
    ELSE FirstInlinePart(parts, i + 1)

\* part_000:96: the texts of the parts whose text is not empty
TextsOf(parts) ==
    LET withText == SelectSeq(parts, LAMBDA p : p.text # <<>>)
    IN  [i \in 1..Len(withText) |-> withText[i].text]

\* the first text alone
FirstTextOnly(parts) == Trim(TextsOf(parts)[1])

\* part_000:98: textParts.join(' ').trim()
TextResponse(parts) == Trim(JoinSpace(TextsOf(parts)))

\* part_000:80-105: what the try block does with a response
ReadResponse(candidates) ==
    IF Len(candidates) = 0 THEN Threw("noImage", "", <<>>)
    ELSE LET candidate == candidates[1]
             found     == FirstInlinePart(candidate.parts, 1)
         IN  IF ~FinishedNormally(candidate.finishReason)
             THEN Threw("blocked", candidate.finishReason, <<>>)
             ELSE IF ~candidate.hasContent THEN Threw("noImage", "", <<>>)
             ELSE IF found > 0 THEN Returned(candidate.parts[found].data)
             ELSE IF TextsOf(candidate.parts) # <<>>
                  THEN Threw("textInsteadOfImage", "", TextResponse(candidate.parts))
             ELSE Threw("noImage", "", <<>>)

\* part_000:107-114: the catch block wraps an Error and replaces anything else
Wrapped(thrown, isError) ==
    IF isError THEN [thrown EXCEPT !.message = "api:" \o @]
    ELSE Threw("unknown", "", <<>>)

\* fileUtils.ts:1-18: fileToBase64 resolves ("ok"), rejects with an Error for
\* an empty payload ("empty"), or rejects with the reader's error event ("error")
FileReadFailure(outcome) ==
    IF outcome = "empty" THEN Wrapped(Threw("readFailed", "", <<>>), TRUE)
    ELSE Wrapped(Threw("readError", "", <<>>), FALSE)

\* part_000:43-115: how the call settles; the files are read first, then the
\* one generateContent call is answered or fails
enhanceImage(reply) ==
    IF reply.filesRead # "ok" THEN FileReadFailure(reply.filesRead)
    ELSE IF ~reply.answered THEN Wrapped(Threw("network", "", <<>>), TRUE)
    ELSE LET r == ReadResponse(reply.candidates)
         IN  IF r.ok THEN r ELSE Wrapped(r, TRUE)

\* no outcome yet
NoOutcome == [ok |-> FALSE, data |-> "", message |-> "pending", reason |-> "", text |-> <<>>]

\* where an enhanceImage call stands: the await it is at, the request parts
\* built so far, the requests sent, the candidates of the response once one
\* is received (<<>> before, <<candidates>> after) and the outcome
EnhanceState(pc, parts, sent, response, out) ==
    [pc |-> pc, parts |-> parts, sent |-> sent, response |-> response, out |-> out]

\* no enhanceImage call has been made
EnhanceIdle == enhanceState = EnhanceState("idle", <<>>, <<>>, <<>>, NoOutcome)

(***************************************************************************)
(* Object URLs of the file previews (src/unnamed/part_001:505-595).        *)
(* A URL is a number, 1 for the first one created; live holds the URLs     *)
(* created and not yet revoked.                                            *)
(***************************************************************************)
MaxUrls == 3

\* part_001:505, 514, 527: useState<string | null>(null)
NoUrl == 0

\* the three preview URL states, the live URLs and the number created so far
PreviewUrls(previewUrl, backgroundPreviewUrl, watermarkPreviewUrl, live, created) ==
    [previewUrl |-> previewUrl, backgroundPreviewUrl |-> backgroundPreviewUrl,
     watermarkPreviewUrl |-> watermarkPreviewUrl, live |-> live, created |-> created]

\* part_001:505-527: the state before any file is chosen
UrlIdle == objectUrls = PreviewUrls(NoUrl, NoUrl, NoUrl, {}, 0)

\* URL.createObjectURL: a URL that was never handed out before
CreateObjectURL(urls) == urls.created + 1

\* a revokeObjectURL that releases nothing
RevokeNothing(live, url) == live

\* URL.revokeObjectURL: releases the URL; revoking a released URL does nothing
RevokeObjectURL(live, url) == live \ {url}

\* part_001:532-538: the cleanup of the effect, with the three URLs of the
\* render that installed it
EffectCleanup(live, old) ==
    LET l1 == IF old.previewUrl # NoUrl THEN RevokeObjectURL(live, old.previewUrl) ELSE live
        l2 == IF old.backgroundPreviewUrl # NoUrl
              THEN RevokeObjectURL(l1, old.backgroundPreviewUrl) ELSE l1
    IN  IF old.watermarkPreviewUrl # NoUrl
        THEN RevokeObjectURL(l2, old.watermarkPreviewUrl) ELSE l2

\* part_001:532-538: after a render the cleanup of the previous render runs
\* when one of the three URLs has changed
Rendered(old, new) ==
    IF <<new.previewUrl, new.backgroundPreviewUrl, new.watermarkPreviewUrl>>
         # <<old.previewUrl, old.backgroundPreviewUrl, old.watermarkPreviewUrl>>
    THEN [new EXCEPT !.live = EffectCleanup(new.live, old)]
    ELSE new

\* part_001:550-553, 574-577, 590-593: the old URL of a preview is revoked
\* when there is one and a URL for the chosen file is created
Replaced(urls, current) ==
    LET released == IF current # NoUrl THEN RevokeObjectURL(urls.live, current) ELSE urls.live
    IN  [urls EXCEPT !.live = released \cup {CreateObjectURL(urls)},
                     !.created = CreateObjectURL(urls)]

(***************************************************************************)
(* The App component (src/unnamed/part_001:36-446).                        *)
(***************************************************************************)
\* the enhance button without its loading lock
ButtonDisabledWithoutLoading == imageFile = "none"

\* part_001:419: disabled={loading || !imageFile}
ButtonDisabled == loading \/ imageFile = "none"

\* setLoading never called in the finally block
LoadingLeftSet == loading

\* part_001:256-259 and 670-672: the finally block, setLoading(false)
LoadingAfterSettle == FALSE

\* part_001:204-216: the call captures the state it was created with and
\* starts applyTitle on the enhanced image
NewRun(enhanced, wmFile) ==
    [base |-> enhanced, wm |-> wmFile, pc |-> "applyTitle",
     titled |-> NoImage, wmBase |-> NoImage]

\* what applyTitle and applyWatermark resolve with
Titled(image) == [image EXCEPT !.stages = Append(@, "applyTitle")]
Watermarked(image, wmFile) ==
    [image EXCEPT !.stages = Append(@, "applyWatermark"), !.wm = wmFile]

\* applyWatermark given the enhanced image instead of applyTitle's output
WatermarkBaseUntitled(run, titled) == run.base

\* part_001:216-219: imageToProcess, the base image handed to applyWatermark
WatermarkBase(run, titled) == titled

\* the sequence without its i-th element
RemoveAt(seq, i) == SubSeq(seq, 1, i - 1) \o SubSeq(seq, i + 1, Len(seq))

(***************************************************************************)
(* One applyTitle call: the inputs are drawn in the initial state, the     *)
(* image's onload / onerror handler settles the promise.                   *)
(***************************************************************************)
MaxTitleParts == 2

ImageSizes ==
    {<<1, 1>>, <<5, 1>>, <<85, 300>>, <<100, 100>>, <<200, 150>>, <<640, 480>>,
     <<1024, 1024>>, <<1600, 900>>}

\* aspectRatio.split(':').map(Number); <<0, 1>> stands for a malformed string
AspectRatios == {<<1, 1>>, <<4, 3>>, <<3, 4>>, <<16, 9>>, <<9, 16>>, <<0, 1>>}

PartColors == <<"#FFFFFF", "#FFD700">>

TitleTexts == TextsUpTo(Chars, MaxTextLen)

TitlePartLists ==
    UNION {[1..n -> TitleTexts] : n \in 0..MaxTitleParts}

Subtitles ==
    {[defined |-> FALSE, text |-> <<>>, color |-> "none"]}
    \cup {[defined |-> TRUE, text |-> t, color |-> "#FFFFFF"] :
              t \in {<<>>, <<" ">>, <<"a">>, <<" ", "a">>}}

TitleCalls ==
    {[natW |-> sz[1], natH |-> sz[2], loads |-> TRUE, hasContext |-> TRUE,
      ratio |-> r, fontFamily |-> "Oswald", subtitle |-> sub,
      titleParts |-> [i \in 1..Len(ts) |-> [text |-> ts[i], color |-> PartColors[i]]]] :
        sz \in ImageSizes, r \in AspectRatios, sub \in Subtitles, ts \in TitlePartLists}

\* the same calls in an environment where the image does not decode, or the
\* canvas gives no 2D context
FailingTitleCalls ==
    {[c EXCEPT !.loads = env[1], !.hasContext = env[2]] :
        c \in {d \in TitleCalls : d.natW = 100 /\ d.subtitle.defined = FALSE},
        env \in {<<FALSE, TRUE>>, <<TRUE, FALSE>>}}

IdleTitleCall ==
    [natW |-> 1, natH |-> 1, loads |-> TRUE, hasContext |-> TRUE, ratio |-> <<1, 1>>,
     fontFamily |-> "Oswald", subtitle |-> [defined |-> FALSE, text |-> <<>>, color |-> "none"],
     titleParts |-> <<>>]

Settled == [Pending EXCEPT !.status = "idle"]

TitleIdle == titleCall = IdleTitleCall /\ titleOut = Settled

IdleWatermarkCall ==
    [natW |-> 1, natH |-> 1, baseLoads |-> TRUE, wmW |-> 1, wmH |-> 1, wmLoads |-> TRUE,
     hasContext |-> TRUE, opacity100 |-> 50, position |-> "bottomRight", size100 |-> 15]

WmIdle == wmCall = IdleWatermarkCall /\ wmOut = [WmPending EXCEPT !.status = "idle"]


\* part_001:37-44: the App's state after construction
AppIdle ==
    /\ appVersion = 1
    /\ imageFile = "none" /\ backgroundStyle = "default"
    /\ backgroundImageFile = "none" /\ watermarkFile = "none"
    /\ enhancedImage = NoImage /\ finalImage = NoImage
    /\ loading = FALSE /\ error = "none"
    /\ requests = <<>> /\ runs = <<>>
    /\ submitted = 0 /\ runsStarted = 0 /\ okCount = 0

\* the App is not running
UsageIdle ==
    /\ now = 0 /\ tz = 0 /\ ticksLeft = 0
    /\ storage = Absent /\ storage0 = Absent
    /\ usageStats = calculateStats(Absent, 0)
    /\ mounted = FALSE /\ calls = NoCounts /\ statsAt = 0 /\ escaped = FALSE

InitTitle ==
    /\ titleCall \in TitleCalls \cup FailingTitleCalls
    /\ titleOut = Pending
    /\ WmIdle
    /\ UsageIdle
    /\ AppIdle
    /\ EnhanceIdle
    /\ UrlIdle

\* baseImage.onload (fileUtils.ts:37-173)
TitleOnLoad ==
    /\ titleOut.status = "pending"
    /\ titleCall.loads
    /\ titleOut' = applyTitle(titleCall)
    /\ UNCHANGED <<titleCall, wmVars, clockVars, usageVars, appVars, enhanceVars, urlVars>>

\* baseImage.onerror (fileUtils.ts:175)
TitleOnError ==
    /\ titleOut.status = "pending"
    /\ ~titleCall.loads
    /\ titleOut' = applyTitle(titleCall)
    /\ UNCHANGED <<titleCall, wmVars, clockVars, usageVars, appVars, enhanceVars, urlVars>>

NextTitle == TitleOnLoad \/ TitleOnError

SpecTitle == InitTitle /\ [][NextTitle]_vars

(***************************************************************************)
(* One applyWatermark call.                                                *)
(***************************************************************************)
WatermarkSizes == {<<64, 64>>, <<300, 100>>, <<90, 240>>, <<7, 3>>}

Positions == {"topLeft", "topRight", "bottomLeft", "bottomRight", "undefined"}

\* the size slider (part_001:343): 0.05 .. 0.5 in steps of 0.01
SizeSteps == {5, 15, 33, 50}

\* the opacity slider (part_001:339): 0 .. 1 in steps of 0.05
OpacitySteps == {0, 50, 100}

WatermarkCalls ==
    {[natW |-> sz[1], natH |-> sz[2], baseLoads |-> TRUE, wmW |-> wsz[1], wmH |-> wsz[2],
      wmLoads |-> TRUE, hasContext |-> TRUE, opacity100 |-> o, position |-> pos,
      size100 |-> pct] :
        sz \in ImageSizes, wsz \in WatermarkSizes, o \in OpacitySteps,
        pos \in Positions, pct \in SizeSteps}

FailingWatermarkCalls ==
    {[c EXCEPT !.baseLoads = env[1], !.wmLoads = env[2], !.hasContext = env[3]] :
        c \in {d \in WatermarkCalls : d.natW = 100 /\ d.wmW = 64 /\ d.opacity100 = 50},
        env \in {<<FALSE, TRUE, TRUE>>, <<TRUE, FALSE, TRUE>>, <<TRUE, TRUE, FALSE>>}}

InitWatermark ==
    /\ wmCall \in WatermarkCalls \cup FailingWatermarkCalls
    /\ wmOut = WmPending
    /\ TitleIdle
    /\ UsageIdle
    /\ AppIdle
    /\ EnhanceIdle
    /\ UrlIdle

\* baseImage.onload (fileUtils.ts:193-260)
WmBaseOnLoad ==
    /\ wmOut.status = "pending"
    /\ wmCall.baseLoads
    /\ wmOut' = WatermarkBaseLoaded(wmOut)
    /\ UNCHANGED <<wmCall, titleVars, clockVars, usageVars, appVars, enhanceVars, urlVars>>

\* baseImage.onerror (fileUtils.ts:262)
WmBaseOnError ==
    /\ wmOut.status = "pending"
    /\ ~wmCall.baseLoads
    /\ wmOut' = [wmOut EXCEPT !.status = "rejected", !.error = "load"]
    /\ UNCHANGED <<wmCall, titleVars, clockVars, usageVars, appVars, enhanceVars, urlVars>>

\* watermarkImage.onload (fileUtils.ts:199-254)
WmImageOnLoad ==
    /\ wmOut.status = "loadingWatermark"
    /\ wmCall.wmLoads
    /\ wmOut' = WatermarkLoaded(wmCall, wmOut)
    /\ UNCHANGED <<wmCall, titleVars, clockVars, usageVars, appVars, enhanceVars, urlVars>>

\* watermarkImage.onerror (fileUtils.ts:256-259)
WmImageOnError ==
    /\ wmOut.status = "loadingWatermark"
    /\ ~wmCall.wmLoads
    /\ wmOut' = WatermarkFailed(wmOut)
    /\ UNCHANGED <<wmCall, titleVars, clockVars, usageVars, appVars, enhanceVars, urlVars>>

NextWatermark == WmBaseOnLoad \/ WmBaseOnError \/ WmImageOnLoad \/ WmImageOnError

SpecWatermark == InitWatermark /\ [][NextWatermark]_vars

(***************************************************************************)
(* The usage counters: the App is started on some stored value, the clock  *)
(* advances, and incrementUsage is called.                                 *)
(***************************************************************************)
\* 2023-12-30T18:00Z and 2024-02-28T18:00Z
StartTimes ==
    {(MonthStart(2023, 12, Epoch[1], Epoch[2]) + 29) * HoursPerDay + 18,
     (MonthStart(2024, 2, Epoch[1], Epoch[2]) + 27) * HoursPerDay + 18}

TimezoneOffsets == {0 - 8, 0, 7}

TickSteps == {6, 24}

\* the day number of the local calendar day at clock value t in timezone z
LocalDayIn(t, z) == (t + z) \div HoursPerDay
LocalDay(t) == LocalDayIn(t, tz)

\* what may be stored when the App starts at clock value t in timezone z
InitialStorages(t, z) ==
    LET today == LocalDayIn(t, z)
    IN  {Absent, Garbage, JsonNull, JsonNumber,
         Stored("totalOnly", 2, NoCounts, NoToday),
         Stored("badmap", 2, NoCounts, NoToday),
         StatsRecord(3, [d \in {CivilFromDays(today - 1), CivilFromDays(today - 8)} |->
                            IF d = CivilFromDays(today - 1) THEN 2 ELSE 1]),
         OldRecord(CivilFromDays(today), 2, 5),
         OldRecord(CivilFromDays(t \div HoursPerDay), 2, 5),
         OldRecord(CivilFromDays(today - 3), 2, 5)}

TotalCalls == SumCounts(calls, DOMAIN calls)

InitUsage ==
    /\ now \in StartTimes
    /\ tz \in TimezoneOffsets
    /\ ticksLeft = MaxTicks
    /\ storage \in InitialStorages(now, tz)
    /\ storage0 = storage
    /\ usageStats = [today |-> 0, yesterday |-> 0, last7Days |-> 0, thisMonth |-> 0, total |-> 0]
    /\ mounted = FALSE
    /\ calls = NoCounts
    /\ statsAt = now
    /\ escaped = FALSE
    /\ TitleIdle
    /\ WmIdle
    /\ AppIdle
    /\ EnhanceIdle
    /\ UrlIdle

\* the clock advances
Tick ==
    /\ ticksLeft > 0
    /\ \E step \in TickSteps : now' = now + step
    /\ ticksLeft' = ticksLeft - 1
    /\ UNCHANGED <<tz, usageVars, titleVars, wmVars, appVars, enhanceVars, urlVars>>

\* part_001:108-138: the load effect of the mounted App
Mount ==
    /\ appVersion = 1
    /\ ~mounted
    /\ mounted' = TRUE
    /\ storage' = LoadedStorage(storage, now)
    /\ usageStats' = LoadedStats(storage, now)
    /\ statsAt' = now
    /\ UNCHANGED <<calls, storage0, escaped, clockVars, titleVars, wmVars, appVars, enhanceVars, urlVars>>

\* part_001:140-167: what a call of incrementUsage does to the usage state
IncrementUsageEffect ==
    IF IncrementThrows(storage)
    THEN /\ escaped' = TRUE
         /\ UNCHANGED <<storage, usageStats, calls, statsAt>>
    ELSE /\ storage' = Incremented(storage, now)
         /\ usageStats' = calculateStats(Incremented(storage, now), now)
         /\ calls' = [d \in DOMAIN calls \cup {LocalDay(now)} |->
                         IF d = LocalDay(now) THEN CountAt(calls, d) + 1 ELSE calls[d]]
         /\ statsAt' = now
         /\ UNCHANGED escaped

\* incrementUsage, called after a successful enhancement
IncrementUsage ==
    /\ mounted
    /\ TotalCalls < MaxCalls
    /\ ~escaped
    /\ IncrementUsageEffect
    /\ UNCHANGED <<mounted, storage0, clockVars, titleVars, wmVars, appVars, enhanceVars, urlVars>>

NextUsage == Tick \/ Mount \/ IncrementUsage

SpecUsage == InitUsage /\ [][NextUsage]_vars

(***************************************************************************)
(* The App within one calendar day: files are chosen, the enhance button   *)
(* is clicked, the remote calls settle in any order, and every             *)
(* finalization call runs to its end one await at a time.                  *)
(***************************************************************************)
MaxSubmits == 2
MaxRuns == 2

ProductFiles == {"p1", "p2"}
BackgroundStyles == {"default", "upload"}
BackgroundFiles == {"none", "b1"}
WatermarkFiles == {"none", "w1"}

\* what generateContent may answer, and the failures before an answer
Replies ==
    {[filesRead |-> "error", answered |-> FALSE, candidates |-> <<>>],
     [filesRead |-> "empty", answered |-> FALSE, candidates |-> <<>>],
     [filesRead |-> "ok", answered |-> FALSE, candidates |-> <<>>]}
    \cup {[filesRead |-> "ok", answered |-> TRUE, candidates |-> c] :
            c \in {<<>>,
                   <<Candidate("SAFETY", TRUE, <<ImagePart("png")>>)>>,
                   <<Candidate("STOP", FALSE, <<>>)>>,
                   <<Candidate("STOP", TRUE, <<>>)>>,
                   <<Candidate("STOP", TRUE, <<TextPart(<<"a">>)>>)>>,
                   <<Candidate("STOP", TRUE, <<TextPart(<<"a">>), ImagePart("png")>>)>>,
                   <<Candidate("MAX_TOKENS", TRUE, <<ImagePart("png")>>)>>,
                   <<Candidate("", TRUE, <<ImagePart("png")>>)>>}}

\* 2023-12-30T18:00Z, the next local day at UTC+7
AppStartTime == (MonthStart(2023, 12, Epoch[1], Epoch[2]) + 29) * HoursPerDay + 18

AppTimezones == {7}

\* what may be stored when the App starts
AppStorages(t, z) ==
    {Absent, Garbage, JsonNumber,
     Stored("badmap", 2, NoCounts, NoToday),
     StatsRecord(3, [d \in {CivilFromDays(LocalDayIn(t, z) - 1)} |-> 3])}

InitApp ==
    /\ now = AppStartTime
    /\ tz \in AppTimezones
    /\ ticksLeft = 0
    /\ appVersion \in {1, 2}
    /\ storage \in (IF appVersion = 1 THEN AppStorages(now, tz) ELSE {Absent})
    /\ storage0 = storage
    /\ usageStats = [today |-> 0, yesterday |-> 0, last7Days |-> 0, thisMonth |-> 0, total |-> 0]
    /\ mounted = FALSE
    /\ calls = NoCounts
    /\ statsAt = now
    /\ escaped = FALSE
    /\ TitleIdle
    /\ WmIdle
    /\ imageFile = "none" /\ backgroundStyle = "default"
    /\ backgroundImageFile = "none" /\ watermarkFile = "none"
    /\ enhancedImage = NoImage /\ finalImage = NoImage
    /\ loading = FALSE /\ error = "none"
    /\ requests = <<>> /\ runs = <<>>
    /\ submitted = 0 /\ runsStarted = 0 /\ okCount = 0
    /\ EnhanceIdle
    /\ UrlIdle

\* part_001:225-229: the effect calls processImageFinalization when the
\* enhanced image or a captured setting has changed and there is an image
FinalizationEffect(enhanced, wmFile) ==
    IF enhanced = NoImage
    THEN UNCHANGED <<runs, runsStarted>>
    ELSE /\ runsStarted < MaxRuns
         /\ runs' = Append(runs, NewRun(enhanced, wmFile))
         /\ runsStarted' = runsStarted + 1

\* part_001:169-176: handleFileChange with a chosen file
HandleFileChange ==
    /\ mounted
    /\ \E file \in ProductFiles : imageFile' = file
    /\ enhancedImage' = NoImage
    /\ finalImage' = NoImage
    /\ error' = "none"
    /\ UNCHANGED <<appVersion, backgroundStyle, backgroundImageFile, watermarkFile, loading,
                   taskVars, clockVars, usageVars, titleVars, wmVars, enhanceVars,
                   urlVars>>

\* part_001:278: the background style select
SetBackgroundStyle ==
    /\ mounted
    /\ \E style \in BackgroundStyles \ {backgroundStyle} : backgroundStyle' = style
    /\ UNCHANGED <<appVersion, imageFile, backgroundImageFile, watermarkFile, viewVars,
                   taskVars, clockVars, usageVars, titleVars, wmVars, enhanceVars,
                   urlVars>>

\* part_001:293-298: the background file input, shown for the upload style
SetBackgroundImageFile ==
    /\ mounted
    /\ backgroundStyle = "upload"
    /\ \E file \in BackgroundFiles \ {backgroundImageFile} : backgroundImageFile' = file
    /\ UNCHANGED <<appVersion, imageFile, backgroundStyle, watermarkFile, viewVars,
                   taskVars, clockVars, usageVars, titleVars, wmVars, enhanceVars,
                   urlVars>>

\* part_001:334: the watermark file input; a changed watermark file is a
\* changed dependency of processImageFinalization (part_001:223)
SetWatermarkFile ==
    /\ mounted
    /\ \E file \in WatermarkFiles \ {watermarkFile} : watermarkFile' = file
    /\ FinalizationEffect(enhancedImage, watermarkFile')
    /\ UNCHANGED <<appVersion, imageFile, backgroundStyle, backgroundImageFile, viewVars,
                   requests, submitted, okCount, clockVars, usageVars, titleVars, wmVars, enhanceVars,
                   urlVars>>

\* handleEnhance without its guards
HandleEnhanceGuardNever(file, style, backgroundImage) == "none"

\* handleEnhance without its check of the background file
HandleEnhanceGuardWithoutBackground(file, style, backgroundImage) ==
    IF file = "none" THEN "noImage" ELSE "none"

\* part_001:233-240: the message of the guard that stops handleEnhance, "none"
\* when it goes on
HandleEnhanceGuard(file, style, backgroundImage) ==
    IF file = "none" THEN "noImage"
    ELSE IF style = "upload" /\ backgroundImage = "none" THEN "noBackground"
    ELSE "none"

\* part_001:232-249 behind the button of part_001:417-423: handleEnhance up
\* to its await
HandleEnhance ==
    /\ mounted
    /\ ~ButtonDisabled
    /\ LET guard == HandleEnhanceGuard(imageFile, backgroundStyle, backgroundImageFile)
       IN  IF guard # "none"
           THEN /\ error' = guard
                /\ UNCHANGED <<enhancedImage, finalImage, loading, requests, submitted>>
           ELSE /\ submitted < MaxSubmits
                /\ loading' = TRUE
                /\ error' = "none"
                /\ enhancedImage' = NoImage
                /\ finalImage' = NoImage
                /\ requests' = Append(requests, [file |-> imageFile, style |-> backgroundStyle,
                                                 backgroundImage |-> backgroundImageFile])
                /\ submitted' = submitted + 1
    /\ UNCHANGED <<formVars, runs, runsStarted, okCount, clockVars, usageVars, titleVars, wmVars, enhanceVars,
                   urlVars>>

\* part_001:250-251 and 256-259, with the effect of 225-229: what handleEnhance
\* does once enhanceImage has returned the image to the i-th call in flight
ResolveEnhance(i) ==
    /\ requests' = RemoveAt(requests, i)
    /\ okCount' = okCount + 1
    /\ IncrementUsageEffect
    /\ IF IncrementThrows(storage)
       THEN /\ error' = "TypeError"
            /\ enhancedImage' = NoImage
            /\ finalImage' = NoImage
            /\ UNCHANGED <<runs, runsStarted>>
       ELSE /\ enhancedImage' = EnhancedFrom(requests[i].file)
            /\ FinalizationEffect(enhancedImage', watermarkFile)
            /\ UNCHANGED <<error, finalImage>>
    /\ loading' = LoadingAfterSettle

\* part_001:252-259: what handleEnhance does once enhanceImage has thrown
RejectEnhance(i, message) ==
    /\ requests' = RemoveAt(requests, i)
    /\ error' = message
    /\ enhancedImage' = NoImage
    /\ finalImage' = NoImage
    /\ loading' = LoadingAfterSettle

\* part_001:249-251 and 256-259, with the effect of 225-229: enhanceImage
\* returned the image
EnhanceReturns ==
    /\ mounted
    /\ \E i \in 1..Len(requests) : \E reply \in Replies :
        /\ enhanceImage(reply).ok
        /\ ResolveEnhance(i)
    /\ UNCHANGED <<formVars, submitted, mounted, storage0, clockVars, titleVars, wmVars, enhanceVars,
                   urlVars>>

\* part_001:252-259: enhanceImage threw
EnhanceThrows ==
    /\ mounted
    /\ \E i \in 1..Len(requests) : \E reply \in Replies :
        /\ ~enhanceImage(reply).ok
        /\ RejectEnhance(i, enhanceImage(reply).message)
    /\ UNCHANGED <<formVars, runs, submitted, runsStarted, okCount,
                   clockVars, usageVars, titleVars, wmVars, enhanceVars, urlVars>>

\* part_001:216-222: applyTitle resolved; the call goes on to applyWatermark
\* when it captured a watermark file, and sets the final image otherwise
TitleResolves ==
    /\ \E i \in 1..Len(runs) :
        LET run == runs[i]
            out == Titled(run.base)
        IN  /\ run.pc = "applyTitle"
            /\ IF run.wm # "none"
               THEN /\ runs' = [runs EXCEPT ![i] = [run EXCEPT !.pc = "applyWatermark",
                                                              !.titled = out,
                                                              !.wmBase = WatermarkBase(run, out)]]
                    /\ UNCHANGED finalImage
               ELSE /\ runs' = RemoveAt(runs, i)
                    /\ finalImage' = [out EXCEPT !.wmSelected = run.wm]
    /\ UNCHANGED <<formVars, enhancedImage, loading, error, requests, submitted, runsStarted,
                   okCount, clockVars, usageVars, titleVars, wmVars, enhanceVars, urlVars>>

\* part_001:219-222: applyWatermark resolved
WatermarkResolves ==
    /\ \E i \in 1..Len(runs) :
        /\ runs[i].pc = "applyWatermark"
        /\ runs' = RemoveAt(runs, i)
        /\ finalImage' = [Watermarked(runs[i].wmBase, runs[i].wm) EXCEPT !.wmSelected = runs[i].wm]
    /\ UNCHANGED <<formVars, enhancedImage, loading, error, requests, submitted, runsStarted,
                   okCount, clockVars, usageVars, titleVars, wmVars, enhanceVars, urlVars>>

\* part_001:216-219: applyTitle or applyWatermark rejected; nothing catches
\* the rejection and the call ends
FinalizationRejects ==
    /\ \E i \in 1..Len(runs) : runs' = RemoveAt(runs, i)
    /\ UNCHANGED <<formVars, viewVars, requests, submitted, runsStarted, okCount,
                   clockVars, usageVars, titleVars, wmVars, enhanceVars, urlVars>>

(***************************************************************************)
(* The second App component (src/unnamed/part_001:449-1004): one click     *)
(* handler awaits enhanceImage, applyTitle and applyWatermark in turn.     *)
(* The title, subtitle and checkbox settings are read at the click.        *)
(***************************************************************************)
ClickSettings ==
    [addTitle : BOOLEAN, titleBlank : BOOLEAN, addSubtitle : BOOLEAN,
     subtitleBlank : BOOLEAN, addWatermark : BOOLEAN]

\* part_001:993: the disabled expression of the enhance button
EnhanceButtonDisabled(s) ==
    \/ imageFile = "none"
    \/ loading
    \/ (backgroundStyle = "upload" /\ backgroundImageFile = "none")
    \/ (s.addTitle /\ s.titleBlank)
    \/ (s.addWatermark /\ watermarkFile = "none")
    \/ (s.addTitle /\ s.addSubtitle /\ s.subtitleBlank)

\* part_001:619-640: the message of the guard that stops the handler,
\* "return" for the silent return, "none" when it goes on
EnhanceClickGuard(s) ==
    IF imageFile = "none" \/ loading THEN "return"
    ELSE IF backgroundStyle = "upload" /\ backgroundImageFile = "none" THEN "noBackground"
    ELSE IF s.addTitle /\ s.titleBlank THEN "noTitle"
    ELSE IF s.addTitle /\ s.addSubtitle /\ s.subtitleBlank THEN "noSubtitle"
    ELSE IF s.addWatermark /\ watermarkFile = "none" THEN "noWatermark"
    ELSE "none"

\* part_001:653-667: the await that follows the one at pc, "done" after the last
NextStage(call, pc) ==
    IF pc = "enhanceImage" /\ call.titleStage THEN "applyTitle"
    ELSE IF pc \in {"enhanceImage", "applyTitle"} /\ call.wmStage THEN "applyWatermark"
    ELSE "done"

\* part_001:654-666: finalImageUrl after the await at pc has resolved
StageOutput(call) ==
    CASE call.pc = "enhanceImage"   -> EnhancedFrom(call.file)
      [] call.pc = "applyTitle"     -> Titled(call.image)
      [] call.pc = "applyWatermark" -> Watermarked(call.image, call.wm)

\* part_001:540-559: handleFileChange with a chosen file, and the render
\* that follows
HandleOriginalFileChange ==
    /\ appVersion = 2
    /\ \E file \in ProductFiles : \E isImage \in BOOLEAN :
        IF isImage
        THEN /\ objectUrls.created < MaxUrls
             /\ imageFile' = file
             /\ enhancedImage' = NoImage
             /\ error' = "none"
             /\ LET urls == Replaced(objectUrls, objectUrls.previewUrl)
                IN  objectUrls' =
                       Rendered(objectUrls, [urls EXCEPT !.previewUrl = urls.created])
        ELSE /\ error' = "notAnImage"
             /\ UNCHANGED <<imageFile, enhancedImage, objectUrls>>
    /\ UNCHANGED <<appVersion, backgroundStyle, backgroundImageFile, watermarkFile,
                   finalImage, loading, taskVars, clockVars, usageVars, titleVars, wmVars, enhanceVars>>

\* part_001:686-695: handleBackgroundStyleChange, and the render that follows
HandleBackgroundStyleChange ==
    /\ appVersion = 2
    /\ \E style \in BackgroundStyles :
        /\ backgroundStyle' = style
        /\ IF style # "upload"
           THEN /\ backgroundImageFile' = "none"
                /\ LET current  == objectUrls.backgroundPreviewUrl
                       released == IF current # NoUrl
                                   THEN RevokeObjectURL(objectUrls.live, current)
                                   ELSE objectUrls.live
                   IN  objectUrls' =
                          Rendered(objectUrls, [objectUrls EXCEPT !.live = released,
                                                                  !.backgroundPreviewUrl = NoUrl])
           ELSE UNCHANGED <<backgroundImageFile, objectUrls>>
    /\ UNCHANGED <<appVersion, imageFile, watermarkFile, viewVars,
                   taskVars, clockVars, usageVars, titleVars, wmVars, enhanceVars>>

\* part_001:565-579: handleBackgroundFileChange with a chosen file, and the
\* render that follows
HandleBackgroundFileChange ==
    /\ appVersion = 2
    /\ backgroundStyle = "upload"
    /\ \E file \in BackgroundFiles \ {"none"} : \E isImage \in BOOLEAN :
        IF isImage
        THEN /\ objectUrls.created < MaxUrls
             /\ backgroundImageFile' = file
             /\ error' = "none"
             /\ LET urls == Replaced(objectUrls, objectUrls.backgroundPreviewUrl)
                IN  objectUrls' =
                       Rendered(objectUrls, [urls EXCEPT !.backgroundPreviewUrl = urls.created])
        ELSE /\ error' = "notAnImage"
             /\ UNCHANGED <<backgroundImageFile, objectUrls>>
    /\ UNCHANGED <<appVersion, imageFile, backgroundStyle, watermarkFile, enhancedImage,
                   finalImage, loading, taskVars, clockVars, usageVars, titleVars, wmVars, enhanceVars>>

\* part_001:581-595: handleWatermarkFileChange with a chosen file, and the
\* render that follows
HandleWatermarkFileChange ==
    /\ appVersion = 2
    /\ \E file \in WatermarkFiles \ {"none"} : \E isImage \in BOOLEAN :
        IF isImage
        THEN /\ objectUrls.created < MaxUrls
             /\ watermarkFile' = file
             /\ error' = "none"
             /\ LET urls == Replaced(objectUrls, objectUrls.watermarkPreviewUrl)
                IN  objectUrls' =
                       Rendered(objectUrls, [urls EXCEPT !.watermarkPreviewUrl = urls.created])
        ELSE /\ error' = "notAnImage"
             /\ UNCHANGED <<watermarkFile, objectUrls>>
    /\ UNCHANGED <<appVersion, imageFile, backgroundStyle, backgroundImageFile, enhancedImage,
                   finalImage, loading, taskVars, clockVars, usageVars, titleVars, wmVars, enhanceVars>>

\* part_001:618-653 behind the button of part_001:991-993: handleEnhanceClick
\* up to its first await
HandleEnhanceClick ==
    /\ appVersion = 2
    /\ \E s \in ClickSettings :
        /\ ~EnhanceButtonDisabled(s)
        /\ IF EnhanceClickGuard(s) = "return"
           THEN UNCHANGED <<error, enhancedImage, loading, requests, submitted>>
           ELSE IF EnhanceClickGuard(s) # "none"
           THEN /\ error' = EnhanceClickGuard(s)
                /\ UNCHANGED <<enhancedImage, loading, requests, submitted>>
           ELSE /\ submitted < MaxSubmits
                /\ loading' = TRUE
                /\ error' = "none"
                /\ enhancedImage' = NoImage
                /\ requests' = Append(requests,
                                      [file |-> imageFile, style |-> backgroundStyle,
                                       backgroundImage |-> backgroundImageFile,
                                       titleStage |-> s.addTitle /\ ~s.titleBlank,
                                       wmStage |-> s.addWatermark /\ watermarkFile # "none",
                                       wm |-> watermarkFile,
                                       pc |-> "enhanceImage", image |-> NoImage])
                /\ submitted' = submitted + 1
    /\ UNCHANGED <<formVars, finalImage, runs, runsStarted, okCount,
                   clockVars, usageVars, titleVars, wmVars, enhanceVars, urlVars>>

\* part_001:653-672: the await of a running handler resolves; after the last
\* one the result is shown and loading ends
EnhanceClickResumes ==
    /\ appVersion = 2
    /\ \E i \in 1..Len(requests) :
        LET call == requests[i]
        IN  /\ call.pc = "enhanceImage" => \E reply \in Replies : enhanceImage(reply).ok
            /\ okCount' = IF call.pc = "enhanceImage" THEN okCount + 1 ELSE okCount
            /\ IF NextStage(call, call.pc) = "done"
               THEN /\ requests' = RemoveAt(requests, i)
                    /\ enhancedImage' = StageOutput(call)
                    /\ loading' = LoadingAfterSettle
               ELSE /\ requests' = [requests EXCEPT ![i] =
                                       [call EXCEPT !.pc = NextStage(call, call.pc),
                                                    !.image = StageOutput(call)]]
                    /\ UNCHANGED <<enhancedImage, loading>>
    /\ UNCHANGED <<formVars, finalImage, error, runs, submitted, runsStarted,
                   clockVars, usageVars, titleVars, wmVars, enhanceVars, urlVars>>

\* part_001:668-672: the await of a running handler rejects
EnhanceClickFails ==
    /\ appVersion = 2
    /\ \E i \in 1..Len(requests) : requests' = RemoveAt(requests, i)
    /\ error' = "enhanceFailed"
    /\ loading' = LoadingAfterSettle
    /\ UNCHANGED <<formVars, enhancedImage, finalImage, runs, submitted, runsStarted, okCount,
                   clockVars, usageVars, titleVars, wmVars, enhanceVars, urlVars>>

NextApp ==
    \/ Mount
    \/ HandleFileChange
    \/ SetBackgroundStyle
    \/ SetBackgroundImageFile
    \/ SetWatermarkFile
    \/ HandleEnhance
    \/ EnhanceReturns
    \/ EnhanceThrows
    \/ TitleResolves
    \/ WatermarkResolves
    \/ FinalizationRejects
    \/ HandleOriginalFileChange
    \/ HandleBackgroundStyleChange
    \/ HandleBackgroundFileChange
    \/ HandleWatermarkFileChange
    \/ HandleEnhanceClick
    \/ EnhanceClickResumes
    \/ EnhanceClickFails

SpecApp == InitApp /\ [][NextApp]_vars

(***************************************************************************)
(* One enhancement in detail: the click of handleEnhance, then enhanceImage *)
(* await by await (src/unnamed/part_000:43-115), then the rest of           *)
(* handleEnhance.                                                           *)
(***************************************************************************)
MaxParts == 2

FinishReasons == {"", "STOP", "MAX_TOKENS", "SAFETY", "RECITATION"}

\* a part with neither inline data nor text
EmptyPart == [hasInlineData |-> FALSE, data |-> "", text |-> <<>>]

ResponseParts ==
    {ImagePart("img1"), ImagePart("img2"), ImagePart(""),
     TextPart(<<"a">>), TextPart(<<" ">>), EmptyPart}

RECURSIVE PartListsUpTo(_)
PartListsUpTo(n) ==
    IF n = 0 THEN {<<>>}
    ELSE LET shorter == PartListsUpTo(n - 1)
         IN  shorter \cup {Append(l, p) : l \in shorter, p \in ResponseParts}

Candidates ==
    {Candidate(r, FALSE, <<>>) : r \in FinishReasons}
    \cup {Candidate(r, TRUE, l) : r \in FinishReasons, l \in PartListsUpTo(MaxParts)}

\* response.candidates: missing or empty, one candidate, or a second one
\* after it
CandidateLists ==
    {<<>>} \cup {<<c>> : c \in Candidates}
    \cup {<<c, Candidate("STOP", TRUE, <<ImagePart("img2")>>)>> :
            c \in {Candidate("SAFETY", TRUE, <<>>), Candidate("STOP", FALSE, <<>>),
                   Candidate("STOP", TRUE, <<TextPart(<<"a">>)>>)}}

FileReads == {"ok", "empty", "error"}

\* part_000:49-56 and 60-66: an inline image part of the request
RequestImage(file) == [inlineData |-> file, text |-> "none"]

\* part_000:69: the text part, the prompt generated for the style
RequestText(style) == [inlineData |-> "none", text |-> style]

\* the App with its files chosen and the usage record loaded
InitEnhance ==
    /\ now = AppStartTime
    /\ tz \in AppTimezones
    /\ ticksLeft = 0
    /\ appVersion = 1
    /\ storage = Absent
    /\ storage0 = storage
    /\ usageStats = LoadedStats(storage, now)
    /\ mounted = TRUE
    /\ calls = NoCounts
    /\ statsAt = now
    /\ escaped = FALSE
    /\ TitleIdle
    /\ WmIdle
    /\ imageFile \in ProductFiles
    /\ backgroundStyle \in BackgroundStyles
    /\ backgroundImageFile \in BackgroundFiles
    /\ watermarkFile = "none"
    /\ enhancedImage = NoImage /\ finalImage = NoImage
    /\ loading = FALSE /\ error = "none"
    /\ requests = <<>> /\ runs = <<>>
    /\ submitted = 0 /\ runsStarted = 0 /\ okCount = 0
    /\ EnhanceIdle
    /\ UrlIdle

\* part_000:58: the background is read and sent for the upload style with a
\* background file
SendsBackground(request) ==
    request.style = "upload" /\ request.backgroundImage # "none"

\* a call that repeats its generateContent request
SentTwice(parts, request) ==
    EnhanceState("generateContent", Append(parts, RequestText(request.style)),
                 <<Append(parts, RequestText(request.style)),
                   Append(parts, RequestText(request.style))>>, <<>>, NoOutcome)

\* part_000:69-78: the text part is pushed and generateContent is called
Sent(parts, request) ==
    EnhanceState("generateContent", Append(parts, RequestText(request.style)),
                 <<Append(parts, RequestText(request.style))>>, <<>>, NoOutcome)

\* the call has not started or is past its last await
BetweenCalls == enhanceState.pc \in {"idle", "settled"}

\* part_000:45-56: fileToBase64 of the product resolves
ProductRead ==
    /\ requests # <<>>
    /\ BetweenCalls
    /\ LET parts == <<RequestImage(requests[1].file)>>
       IN  enhanceState' =
              IF SendsBackground(requests[1])
              THEN EnhanceState("readBackground", parts, <<>>, <<>>, NoOutcome)
              ELSE Sent(parts, requests[1])
    /\ UNCHANGED <<appVars, clockVars, usageVars, titleVars, wmVars, urlVars>>

\* part_000:58-66: fileToBase64 of the background resolves
BackgroundRead ==
    /\ requests # <<>>
    /\ enhanceState.pc = "readBackground"
    /\ enhanceState' =
          Sent(Append(enhanceState.parts, RequestImage(requests[1].backgroundImage)),
               requests[1])
    /\ UNCHANGED <<appVars, clockVars, usageVars, titleVars, wmVars, urlVars>>

\* part_000:45 or 59 rejects, part_000:107-114 and part_001:252-259
FileReadFails ==
    /\ requests # <<>>
    /\ BetweenCalls \/ enhanceState.pc = "readBackground"
    /\ \E outcome \in FileReads \ {"ok"} :
        /\ enhanceState' = EnhanceState("settled", enhanceState.parts,
                                        IF BetweenCalls THEN <<>> ELSE enhanceState.sent,
                                        <<>>, FileReadFailure(outcome))
        /\ RejectEnhance(1, FileReadFailure(outcome).message)
    /\ UNCHANGED <<formVars, runs, submitted, runsStarted, okCount,
                   clockVars, usageVars, titleVars, wmVars, urlVars>>

\* part_000:71-114 rejects: generateContent fails, part_001:252-259
RemoteCallFails ==
    /\ requests # <<>>
    /\ enhanceState.pc = "generateContent"
    /\ LET out == Wrapped(Threw("network", "", <<>>), TRUE)
       IN  /\ enhanceState' = [enhanceState EXCEPT !.pc = "settled", !.out = out]
           /\ RejectEnhance(1, out.message)
    /\ UNCHANGED <<formVars, runs, submitted, runsStarted, okCount,
                   clockVars, usageVars, titleVars, wmVars, urlVars>>

\* part_000:80-114: generateContent resolves with a response, part_001:250-259
ResponseArrives ==
    /\ requests # <<>>
    /\ enhanceState.pc = "generateContent"
    /\ \E candidates \in CandidateLists :
        LET r   == ReadResponse(candidates)
            out == IF r.ok THEN r ELSE Wrapped(r, TRUE)
        IN  /\ enhanceState' = [enhanceState EXCEPT !.pc = "settled",
                                                    !.response = <<candidates>>,
                                                    !.out = out]
            /\ IF out.ok
               THEN /\ ResolveEnhance(1)
                    /\ UNCHANGED <<mounted, storage0>>
               ELSE /\ RejectEnhance(1, out.message)
                    /\ UNCHANGED <<runs, runsStarted, okCount, usageVars>>
    /\ UNCHANGED <<formVars, submitted, clockVars, titleVars, wmVars, urlVars>>

NextEnhance ==
    \/ HandleEnhance
    \/ ProductRead
    \/ BackgroundRead
    \/ FileReadFails
    \/ RemoteCallFails
    \/ ResponseArrives

SpecEnhance == InitEnhance /\ [][NextEnhance]_vars


\* the first App component alone, started with nothing stored or with a
\* stored number
InitAppLive ==
    /\ InitApp
    /\ appVersion = 1
    /\ storage \in {Absent, JsonNumber}

NextAppLive ==
    \/ Mount
    \/ HandleFileChange
    \/ SetBackgroundStyle
    \/ SetBackgroundImageFile
    \/ SetWatermarkFile
    \/ HandleEnhance
    \/ EnhanceReturns
    \/ EnhanceThrows
    \/ TitleResolves
    \/ WatermarkResolves
    \/ FinalizationRejects

\* every promise handleEnhance awaits settles: the remote call resolves or
\* rejects
SpecAppLive ==
    /\ InitAppLive
    /\ [][NextAppLive]_vars
    /\ WF_vars(EnhanceReturns \/ EnhanceThrows)

(***************************************************************************)
(* Object URLs: the file selections of the second App component, with one  *)
(* applyWatermark call loading its images meanwhile.                       *)
(***************************************************************************)
\* one watermark call that succeeds and the three ways the call can fail
UrlWatermarkCalls ==
    {c \in WatermarkCalls \cup FailingWatermarkCalls :
        /\ c.natW = 100 /\ c.wmW = 64 /\ c.opacity100 = 50
        /\ c.position = "bottomRight" /\ c.size100 = 15}

InitUrls ==
    /\ now = AppStartTime
    /\ tz \in AppTimezones
    /\ ticksLeft = 0
    /\ appVersion = 2
    /\ storage = Absent
    /\ storage0 = storage
    /\ usageStats = [today |-> 0, yesterday |-> 0, last7Days |-> 0, thisMonth |-> 0, total |-> 0]
    /\ mounted = FALSE
    /\ calls = NoCounts
    /\ statsAt = now
    /\ escaped = FALSE
    /\ TitleIdle
    /\ wmCall \in UrlWatermarkCalls
    /\ wmOut = WmPending
    /\ imageFile = "none" /\ backgroundStyle = "default"
    /\ backgroundImageFile = "none" /\ watermarkFile = "none"
    /\ enhancedImage = NoImage /\ finalImage = NoImage
    /\ loading = FALSE /\ error = "none"
    /\ requests = <<>> /\ runs = <<>>
    /\ submitted = 0 /\ runsStarted = 0 /\ okCount = 0
    /\ EnhanceIdle
    /\ UrlIdle

NextUrls ==
    \/ HandleOriginalFileChange
    \/ HandleBackgroundStyleChange
    \/ HandleBackgroundFileChange
    \/ HandleWatermarkFileChange
    \/ WmBaseOnLoad
    \/ WmBaseOnError
    \/ WmImageOnLoad
    \/ WmImageOnError

SpecUrls == InitUrls /\ [][NextUrls]_vars

(***************************************************************************)
(* calculateStats on stored mappings: the App is mounted on a record whose *)
(* dates lie around the current local date.                                *)
(***************************************************************************)
\* 2023-12-31T18:00Z, 2024-01-03T12:00Z and 2024-03-02T20:00Z
StatsTimes ==
    {(MonthStart(2023, 12, Epoch[1], Epoch[2]) + 30) * HoursPerDay + 18,
     (MonthStart(2024, 1, Epoch[1], Epoch[2]) + 2) * HoursPerDay + 12,
     (MonthStart(2024, 3, Epoch[1], Epoch[2]) + 1) * HoursPerDay + 20}

\* the dates a stored mapping may hold at clock value t in timezone z: the
\* local day, the days 1, 2, 6 and 7 before it, the day after it, the first
\* day of its month and the same day a year earlier
StatsKeys(t, z) ==
    LET today == LocalDayIn(t, z)
        c     == CivilFromDays(today)
    IN  <<c, CivilFromDays(today - 1), CivilFromDays(today - 2), CivilFromDays(today - 6),
          CivilFromDays(today - 7), CivilFromDays(today + 1), <<c[1], c[2], 1>>,
          <<c[1] - 1, c[2], c[3]>>>>

\* a count that tells the dates apart in every sum; the stored total, 1000,
\* is none of the sums
StatsCount(keys, date) == 2 ^ ((CHOOSE i \in 1..Len(keys) : keys[i] = date) - 1)

StatsRecords(t, z) ==
    LET keys == StatsKeys(t, z)
    IN  {StatsRecord(1000, [d \in {keys[i] : i \in picked} |-> StatsCount(keys, d)]) :
            picked \in SUBSET (1..Len(keys))}

InitStats ==
    /\ now \in StatsTimes
    /\ tz \in TimezoneOffsets
    /\ ticksLeft = 0
    /\ storage \in StatsRecords(now, tz)
    /\ storage0 = storage
    /\ usageStats = [today |-> 0, yesterday |-> 0, last7Days |-> 0, thisMonth |-> 0, total |-> 0]
    /\ mounted = FALSE
    /\ calls = NoCounts
    /\ statsAt = now
    /\ escaped = FALSE
    /\ TitleIdle
    /\ WmIdle
    /\ AppIdle
    /\ EnhanceIdle
    /\ UrlIdle

SpecStats == InitStats /\ [][Mount]_vars

(***************************************************************************)
(* The two compositing calls side by side, in environments where an image  *)
(* does not decode or the canvas gives no 2D context, and where all works. *)
(***************************************************************************)
CompositeTitleCalls ==
    FailingTitleCalls
        \cup {c \in TitleCalls : c.natW = 100 /\ c.subtitle.defined = FALSE}

InitComposite ==
    /\ titleCall \in CompositeTitleCalls
    /\ titleOut = Pending
    /\ wmCall \in UrlWatermarkCalls
    /\ wmOut = WmPending
    /\ UsageIdle
    /\ AppIdle
    /\ EnhanceIdle
    /\ UrlIdle

NextComposite ==
    \/ TitleOnLoad
    \/ TitleOnError
    \/ WmBaseOnLoad
    \/ WmBaseOnError
    \/ WmImageOnLoad
    \/ WmImageOnError

SpecComposite == InitComposite /\ [][NextComposite]_vars

(***************************************************************************)
(* Rational arithmetic for the statements below.                           *)
(***************************************************************************)
RECURSIVE Gcd(_, _)
Gcd(a, b) == IF b = 0 THEN a ELSE Gcd(b, a % b)

\* the same rational in lowest terms, with a positive denominator
Reduced(r) ==
    LET g == Gcd(Abs(r[1]), Abs(r[2]))
        k == IF r[2] < 0 THEN 0 - g ELSE g
    IN  IF g = 0 THEN r ELSE <<r[1] \div k, r[2] \div k>>

RatEq(a, b) == Reduced(a) = Reduced(b)
RatLt(a, b) == LET x == Reduced(a) y == Reduced(b) IN x[1] * y[2] < y[1] * x[2]
RatAdd(a, b) ==
    LET x == Reduced(a) y == Reduced(b)
    IN  Reduced(<<x[1] * y[2] + y[1] * x[2], x[2] * y[2]>>)
RatSub(a, b) ==
    LET x == Reduced(a) y == Reduced(b)
    IN  Reduced(<<x[1] * y[2] - y[1] * x[2], x[2] * y[2]>>)
Int2Rat(n) == <<n, 1>>

\* the margins the crop removes on each side of the source image
LeftMargin == titleOut.sx
RightMargin == RatSub(Int2Rat(titleCall.natW), RatAdd(titleOut.sx, titleOut.sw))
TopMargin == titleOut.sy
BottomMargin == RatSub(Int2Rat(titleCall.natH), RatAdd(titleOut.sy, titleOut.sh))

WidthReduced == RatLt(titleOut.sw, Int2Rat(titleCall.natW))
HeightReduced == RatLt(titleOut.sh, Int2Rat(titleCall.natH))

\* the crop has exactly the target ratio, lies inside the image, removes equal
\* margins on opposite sides, and the canvas is the crop in whole pixels
CropCentered ==
    /\ LET w == Reduced(titleOut.sw) h == Reduced(titleOut.sh)
       IN  RatEq(<<w[1] * h[2], h[1] * w[2]>>, titleCall.ratio)
    /\ LeftMargin[1] >= 0 /\ TopMargin[1] >= 0
    /\ RatEq(LeftMargin, RightMargin)
    /\ RatEq(TopMargin, BottomMargin)
    /\ WidthReduced => RatEq(TopMargin, Int2Rat(0))
    /\ HeightReduced => RatEq(LeftMargin, Int2Rat(0))
    /\ Abs(titleOut.canvasW * titleOut.sw[2] - titleOut.sw[1]) <= titleOut.sw[2]
    /\ Abs(titleOut.canvasH * titleOut.sh[2] - titleOut.sh[1]) <= titleOut.sh[2]

\* C1 as stated: the canvas of applyTitle has the ratio w/h within rounding
\* tolerance and the crop is centered, with exactly one dimension reduced.
C1_ExactlyOneDimensionReduced ==
    titleOut.status = "resolved" =>
        /\ CropCentered
        /\ WidthReduced # HeightReduced

\* C1 (amended): the canvas of applyTitle has the ratio w/h up to one pixel in
\* the cropped dimension and the crop is centered; at most one dimension is
\* reduced, and none is when the source already has the target ratio.
C1_CropCentered ==
    titleOut.status = "resolved" =>
        /\ CropCentered
        /\ ~(WidthReduced /\ HeightReduced)
        /\ (WidthReduced \/ HeightReduced)
             <=> titleCall.natW * titleCall.ratio[2] # titleCall.natH * titleCall.ratio[1]

C1_Witness ==
    /\ titleOut.status = "resolved"
    /\ HeightReduced
    /\ titleOut.sy[1] > 0
    /\ titleOut.canvasH * titleOut.sh[2] < titleOut.sh[1]


(***************************************************************************)
(* The title's font size.                                                  *)
(***************************************************************************)
\* a segment with some non-whitespace character
NonBlank(text) == \E i \in 1..Len(text) : text[i] # " "

TitleGiven == \E i \in 1..Len(titleCall.titleParts) : NonBlank(titleCall.titleParts[i].text)

\* the uppercased, space-joined title that is measured
MeasuredTitle ==
    LET kept == SelectSeq(titleCall.titleParts, LAMBDA p : NonBlank(p.text))
    IN  JoinSpace([i \in 1..Len(kept) |-> ToUpperCase(kept[i].text)])

\* the measured width of the title at size s is at most canvas width - 80
FitsAt(s) ==
    LET w == MeasureText(MeasuredTitle, s, 1)
    IN  w[1] <= (titleOut.canvasW - TitleMargin) * w[2]

\* C2 as stated: the chosen size is the largest integer s <= 200 at which the
\* title fits in canvas width - 80, and it lies in 10..200.
C2_LargestFittingSize ==
    (titleOut.status = "resolved" /\ TitleGiven) =>
        /\ titleOut.fontSize \in MinFontSize..MaxFontSize
        /\ FitsAt(titleOut.fontSize)
        /\ \A s \in (titleOut.fontSize + 1)..MaxFontSize : ~FitsAt(s)

\* C2 (amended): the chosen size is the largest integer s in 11..200 at which
\* the title fits in canvas width - 80, and 10 when it fits at none of them
\* (size 10 is not measured, so the title may then be wider than the canvas);
\* the chosen size lies in 10..200.
C2_LargestFittingSizeOrFloor ==
    (titleOut.status = "resolved" /\ TitleGiven) =>
        /\ titleOut.fontSize \in MinFontSize..MaxFontSize
        /\ titleOut.fontSize > MinFontSize => FitsAt(titleOut.fontSize)
        /\ \A s \in (titleOut.fontSize + 1)..MaxFontSize : ~FitsAt(s)

C2_Witness ==
    /\ titleOut.status = "resolved"
    /\ TitleGiven
    /\ ~FitsAt(MaxFontSize)
    /\ titleOut.fontSize > MinFontSize
    /\ titleOut.fontSize < MaxFontSize

(***************************************************************************)
(* No title and no subtitle.                                               *)
(***************************************************************************)
NoTextGiven ==
    /\ ~TitleGiven
    /\ ~(titleCall.subtitle.defined /\ NonBlank(titleCall.subtitle.text))

\* C3: with no non-empty title segment and no subtitle, applyTitle draws no
\* text and resolves with the cropped base image.
C3_NoTextNoDrawing ==
    (NoTextGiven /\ titleOut.status # "pending") =>
        /\ titleOut.ops = <<>>
        /\ titleOut.fontSize = 0
        /\ (titleCall.loads /\ titleCall.hasContext
              /\ titleCall.ratio[1] > 0 /\ titleCall.ratio[2] > 0)
             => /\ titleOut.status = "resolved"
                /\ C1_CropCentered

C3_Witness ==
    /\ titleOut.status = "resolved"
    /\ NoTextGiven
    /\ Len(titleCall.titleParts) = 2
    /\ titleCall.titleParts[1].text = <<" ">>
    /\ titleCall.subtitle.defined
    /\ titleCall.subtitle.text = <<" ">>
    /\ titleOut.canvasW = 640


(***************************************************************************)
(* The watermark's size and place.                                         *)
(***************************************************************************)
\* the gaps between the drawn watermark and the four edges of the canvas
GapLeft == wmOut.x
GapTop == wmOut.y
GapRight == RatSub(Int2Rat(wmOut.canvasW), RatAdd(wmOut.x, wmOut.w))
GapBottom == RatSub(Int2Rat(wmOut.canvasH), RatAdd(wmOut.y, wmOut.h))

PaddedFrom(gap) == RatEq(gap, Int2Rat(WatermarkPadding))

\* C4: applyWatermark draws the watermark size x baseWidth wide, keeps the
\* watermark's aspect ratio, and puts it 20 pixels from both edges of the
\* requested corner.
C4_WatermarkGeometry ==
    wmOut.status = "resolved" =>
        /\ wmOut.drawn
        /\ wmOut.canvasW = wmCall.natW /\ wmOut.canvasH = wmCall.natH
        /\ RatEq(wmOut.w, <<wmCall.size100 * wmCall.natW, 100>>)
        /\ LET w == Reduced(wmOut.w) h == Reduced(wmOut.h)
           IN  RatEq(<<w[1] * h[2], h[1] * w[2]>>, <<wmCall.wmW, wmCall.wmH>>)
        /\ wmCall.position = "topLeft" => PaddedFrom(GapLeft) /\ PaddedFrom(GapTop)
        /\ wmCall.position = "topRight" => PaddedFrom(GapRight) /\ PaddedFrom(GapTop)
        /\ wmCall.position = "bottomLeft" => PaddedFrom(GapLeft) /\ PaddedFrom(GapBottom)
        /\ wmCall.position = "bottomRight" => PaddedFrom(GapRight) /\ PaddedFrom(GapBottom)

C4_Witness ==
    /\ wmOut.status = "resolved"
    /\ wmCall.position = "bottomLeft"
    /\ wmCall.wmW = 300 /\ wmCall.wmH = 100
    /\ wmCall.natW = 1600 /\ wmCall.size100 = 15
    /\ wmOut.w = <<24000, 100>>
    /\ RatEq(wmOut.h, Int2Rat(80))
    /\ RatEq(wmOut.y, Int2Rat(800))


(***************************************************************************)
(* Usage counters over three consecutive days.                             *)
(***************************************************************************)
StatsAre(stats, d) ==
    /\ stats.today = CountAt(calls, d)
    /\ stats.yesterday = CountAt(calls, d - 1)
    /\ stats.last7Days = CountAt(calls, d) + CountAt(calls, d - 1) + CountAt(calls, d - 2)
    /\ stats.total = CountAt(calls, d) + CountAt(calls, d - 1) + CountAt(calls, d - 2)

\* C5: from empty storage, after a1, a2 and a3 calls of incrementUsage on
\* three consecutive days, the statistics computed on the third day are
\* today = a3, yesterday = a2, last7Days = total = a1 + a2 + a3.
C5_ThreeConsecutiveDays ==
    LET d == LocalDay(now)
    IN  (mounted /\ storage0 = Absent /\ DOMAIN calls \subseteq {d - 2, d - 1, d}) =>
            /\ StatsAre(calculateStats(storage, now), d)
            /\ LocalDay(statsAt) = d => StatsAre(usageStats, d)

C5_Witness ==
    LET d == LocalDay(now)
    IN  /\ mounted /\ storage0 = Absent
        /\ DOMAIN calls = {d - 2, d - 1, d}
        /\ calls[d - 2] = 2 /\ calls[d - 1] = 1 /\ calls[d] = 1
        /\ statsAt = now
        /\ CivilFromDays(d)[3] = 1
        /\ CivilFromDays(d)[2] # CivilFromDays(d - 1)[2]
        /\ usageStats.last7Days = 4

(***************************************************************************)
(* The migration of an old-shape record.                                   *)
(***************************************************************************)
\* the state right after the load effect has migrated an old-shape record
JustMigrated == mounted /\ storage0.kind = "old" /\ calls = NoCounts

MigratedAgainst(currentDate) ==
    /\ storage.kind = "stats"
    /\ storage.total = storage0.total
    /\ storage.dailyCounts =
         IF storage0.today.date = currentDate
         THEN [d \in {storage0.today.date} |-> storage0.today.count]
         ELSE NoCounts
    /\ LoadedStorage(storage, now) = storage

\* C7: the migration keeps the stored day's count exactly when the stored
\* date is the current calendar date (the local date every other counter is
\* keyed by), keeps the total, and writes the new shape back.
C7_MigrationKeepsToday ==
    JustMigrated => MigratedAgainst(CivilFromDays(LocalDay(statsAt)))

\* what the load effect does: the stored date is compared with the UTC date
C7_MigrationAgainstUtcDate ==
    JustMigrated => MigratedAgainst(CivilFromDays(statsAt \div HoursPerDay))

(***************************************************************************)
(* The usage record across enhancements.                                   *)
(***************************************************************************)
\* the persisted counts as calculateStats and incrementUsage read them
PersistedTotal(data) == TotalOf(data)
PersistedCount(data, date) == CountAt(DailyCountsOf(data), date)
PersistedDates(data) == DOMAIN DailyCountsOf(data)

\* the step settles a remote call of handleEnhance that returned an image
EnhancementSucceeds == appVersion = 1 /\ okCount' = okCount + 1

\* today's count and the total grow by one, every other date keeps its count
CountedOnce ==
    LET todayStr == getISODateString(now)
    IN  /\ PersistedTotal(storage') = PersistedTotal(storage) + 1
        /\ PersistedCount(storage', todayStr) = PersistedCount(storage, todayStr) + 1
        /\ \A d \in (PersistedDates(storage) \cup PersistedDates(storage')) \ {todayStr} :
              PersistedCount(storage', d) = PersistedCount(storage, d)

\* C6: every enhancement whose remote call succeeds raises today's count and
\* the total by exactly one and leaves the other dates alone; every other
\* step of the mounted App (a failed call, a rejected click) leaves the
\* persisted record unchanged.
C6_EnhancementCountsOnce ==
    [][/\ EnhancementSucceeds => CountedOnce
       /\ (mounted /\ ~EnhancementSucceeds) => storage' = storage]_vars

\* the same statement for the steps where incrementUsage does not throw
C6_CountsOnceUnlessThrown ==
    [][/\ (EnhancementSucceeds /\ ~IncrementThrows(storage)) => CountedOnce
       /\ (mounted /\ ~EnhancementSucceeds) => storage' = storage]_vars

\* what was stored at the start is no usable record
MalformedAtStart == storage0.kind \in {"garbage", "null", "number", "badmap"}

NoUsage == [today |-> 0, yesterday |-> 0, last7Days |-> 0, thisMonth |-> 0, total |-> 0]

\* C8: when the persisted value is malformed the App treats the usage state
\* as empty: all displayed counts are zero after the load, the successful
\* enhancements that follow are counted from a fresh record, and no error
\* reaches the user.
C8_CorruptStateSilentlyReset ==
    (mounted /\ MalformedAtStart) =>
        /\ ~escaped
        /\ error # "TypeError"
        /\ okCount = 0 => usageStats = NoUsage
        /\ PersistedTotal(storage) = okCount
        /\ SumCounts(DailyCountsOf(storage), PersistedDates(storage)) = okCount

(***************************************************************************)
(* The enhance button and the remote calls.                                *)
(***************************************************************************)
\* C9: at most one remote enhancement request is outstanding; while it is,
\* loading is set and the enhance button is disabled, and loading is clear
\* when no request is outstanding.
C9_AtMostOneOutstandingRequest ==
    /\ Len(requests) <= 1
    /\ requests # <<>> => loading
    /\ requests = <<>> => ~loading
    /\ loading => IF appVersion = 1 THEN ButtonDisabled
                  ELSE \A s \in ClickSettings : EnhanceButtonDisabled(s)

\* a second request is outstanding after the first has settled
C9_Witness == Len(requests) = 1 /\ submitted = 2 /\ loading /\ ButtonDisabled

(***************************************************************************)
(* The order of the finalization stages.                                   *)
(***************************************************************************)
StagesFor(wmFile) ==
    IF wmFile = "none" THEN <<"applyTitle">> ELSE <<"applyTitle", "applyWatermark">>

\* C10: a finalization call runs applyTitle first; applyWatermark, run only
\* when a watermark file was selected, starts after applyTitle has resolved
\* and works on applyTitle's output; the final image is set from the last
\* applicable stage only.
C10_FinalizationOrder ==
    /\ \A i \in 1..Len(runs) :
        /\ runs[i].pc = "applyTitle" => (runs[i].titled = NoImage /\ runs[i].wmBase = NoImage)
        /\ runs[i].pc = "applyWatermark" =>
              /\ runs[i].wm # "none"
              /\ runs[i].titled = Titled(runs[i].base)
              /\ runs[i].wmBase = runs[i].titled
    /\ finalImage # NoImage =>
        /\ finalImage.stages = StagesFor(finalImage.wmSelected)
        /\ finalImage.wm = finalImage.wmSelected

\* a final image that went through both stages is on display
C10_Witness ==
    /\ finalImage # NoImage
    /\ finalImage.wmSelected = "w1"
    /\ finalImage.stages = <<"applyTitle", "applyWatermark">>

(***************************************************************************)
(* Finalization calls in flight.                                           *)
(***************************************************************************)
\* C11: at any time at most one finalization call (the applyTitle /
\* applyWatermark pipeline) is in progress, whatever the interleaving of an
\* enhancement completing and the user changing a setting.
C11_AtMostOneFinalizationRun == Len(runs) <= 1

(***************************************************************************)
(* The life of a remote request.                                           *)
(***************************************************************************)
\* a handler in flight leaves the list only in a step that settles it, and
\* that step runs the finally block
SettledNotCancelled ==
    Len(requests') < Len(requests) =>
        /\ Len(requests') = Len(requests) - 1
        /\ loading' = FALSE
        /\ (appVersion = 1 => (okCount' = okCount + 1 \/ error' # "none"))

\* C12: a request in flight is never cancelled; loading stays true while it
\* is outstanding, the step that settles it (resolved or rejected) clears
\* loading, and so loading never stays set forever.
C12_LoadingUntilSettled ==
    /\ [](requests # <<>> => loading)
    /\ [][SettledNotCancelled]_vars
    /\ (loading ~> ~loading)

\* a request has settled and the button is enabled again
C12_Witness ==
    /\ submitted >= 1 /\ requests = <<>> /\ ~loading
    /\ imageFile # "none" /\ appVersion = 1 /\ ~ButtonDisabled

(***************************************************************************)
(* What enhanceImage makes of a response.                                  *)
(***************************************************************************)
Answered == enhanceState.pc = "settled" /\ Len(enhanceState.response) = 1
ResponseCandidates == enhanceState.response[1]
FirstCandidate == ResponseCandidates[1]
HasCandidate == Answered /\ Len(ResponseCandidates) > 0
Outcome == enhanceState.out

BlockedWith(reason) ==
    /\ ~Outcome.ok
    /\ Outcome.data = ""
    /\ Outcome.message = "api:blocked"
    /\ Outcome.reason = reason

\* C13 as claimed: every finish reason other than a normal stop, a length
\* limit included, makes enhanceImage fail with the blocked-request error
\* naming the reason.
C13_NonStopReasonBlocked ==
    (HasCandidate /\ FirstCandidate.finishReason \notin {"", "STOP"}) =>
        BlockedWith(FirstCandidate.finishReason)

\* C13: a first candidate whose finish reason is neither STOP nor MAX_TOKENS
\* makes enhanceImage fail with the blocked-request error naming that
\* reason and return no image; STOP, MAX_TOKENS and a missing reason never
\* give the blocked-request error.
C13_BlockedUnlessStopOrMaxTokens ==
    HasCandidate =>
        IF FirstCandidate.finishReason \in {"", "STOP", "MAX_TOKENS"}
        THEN Outcome.message # "api:blocked"
        ELSE BlockedWith(FirstCandidate.finishReason)

\* a safety block of a response that carries an image
C13_Witness ==
    /\ HasCandidate
    /\ FirstCandidate.finishReason = "SAFETY"
    /\ FirstCandidate.hasContent
    /\ \E i \in 1..Len(FirstCandidate.parts) : FirstCandidate.parts[i].hasInlineData
    /\ BlockedWith("SAFETY")

\* the candidate passed the finish-reason check and has parts
Readable ==
    /\ HasCandidate
    /\ FirstCandidate.finishReason \in {"", "STOP", "MAX_TOKENS"}
    /\ FirstCandidate.hasContent

InlineAt(parts) == {i \in 1..Len(parts) : parts[i].hasInlineData}
TextAt(parts) == {i \in 1..Len(parts) : parts[i].text # <<>>}

\* the texts at positions from..Len(parts), joined by single spaces
RECURSIVE JoinedFrom(_, _)
JoinedFrom(parts, from) ==
    IF from > Len(parts) THEN <<>>
    ELSE IF parts[from].text = <<>> THEN JoinedFrom(parts, from + 1)
    ELSE IF \E j \in (from + 1)..Len(parts) : parts[j].text # <<>>
         THEN parts[from].text \o <<" ">> \o JoinedFrom(parts, from + 1)
         ELSE parts[from].text

\* C14: when the first candidate completed normally and its parts hold no
\* inline image but at least one text part, enhanceImage fails with the
\* text-instead-of-image error, whose message quotes all the text parts
\* joined by spaces (trimmed at both ends).
C14_TextInsteadOfImage ==
    (Readable /\ InlineAt(FirstCandidate.parts) = {} /\ TextAt(FirstCandidate.parts) # {}) =>
        /\ ~Outcome.ok
        /\ Outcome.message = "api:textInsteadOfImage"
        /\ Outcome.text = Trim(JoinedFrom(FirstCandidate.parts, 1))

\* two text parts are quoted with a space between them
C14_Witness ==
    /\ Readable
    /\ FirstCandidate.parts = <<TextPart(<<"a">>), TextPart(<<"a">>)>>
    /\ Outcome.message = "api:textInsteadOfImage"
    /\ Outcome.text = <<"a", " ", "a">>

\* nothing usable came back: no candidate, no content, or parts with neither
\* an inline image nor text
NothingUsable ==
    /\ Answered
    /\ \/ Len(ResponseCandidates) = 0
       \/ /\ FirstCandidate.finishReason \in {"", "STOP", "MAX_TOKENS"}
          /\ \/ ~FirstCandidate.hasContent
             \/ (InlineAt(FirstCandidate.parts) = {} /\ TextAt(FirstCandidate.parts) = {})

\* the first half of C15: nothing usable gives the generic no-image error
C15_NoImageError ==
    NothingUsable => (~Outcome.ok /\ Outcome.message = "api:noImage")

\* C15: a response with no candidates, with a first candidate without
\* content, or with parts that hold neither an inline image nor text makes
\* enhanceImage fail with the generic no-image error; and for every response
\* enhanceImage either returns an image payload or throws: it never returns
\* without an image.
C15_ImageOrThrow ==
    /\ C15_NoImageError
    /\ Answered =>
        \/ Outcome.ok /\ Outcome.data # ""
        \/ ~Outcome.ok /\ Outcome.data = "" /\ Outcome.message # "pending"

\* the position of the earliest part with inline data
EarliestInline(parts) ==
    CHOOSE i \in InlineAt(parts) : \A j \in InlineAt(parts) : i <= j

\* C16: on success enhanceImage returns the data of the earliest part that
\* carries an inline image, whatever text parts come before or after it;
\* and whenever a readable candidate has such a part the call succeeds.
C16_FirstInlineImage ==
    /\ (Answered /\ Outcome.ok) =>
        /\ Readable
        /\ InlineAt(FirstCandidate.parts) # {}
        /\ Outcome.data = FirstCandidate.parts[EarliestInline(FirstCandidate.parts)].data
    /\ (Readable /\ InlineAt(FirstCandidate.parts) # {}) => Outcome.ok

\* a response with two different images: the first one is returned
C16_Witness ==
    /\ Readable
    /\ FirstCandidate.parts = <<ImagePart("img1"), ImagePart("img2")>>
    /\ Outcome.ok
    /\ Outcome.data = "img1"

(***************************************************************************)
(* Failures of an enhancement, and the request it sends.                   *)
(***************************************************************************)
\* the messages handleEnhance can show for a failed enhanceImage call
UserErrors ==
    {"unknown", "api:readFailed", "api:network", "api:blocked",
     "api:textInsteadOfImage", "api:noImage"}

\* the call in hand has failed and the user has not clicked again
FailedAndIdle == enhanceState.pc = "settled" /\ ~Outcome.ok /\ requests = <<>>

\* C17: a failed enhancement (file read, remote call, blocked, text-only or
\* no-image response) shows exactly one error value, the wrapped message of
\* the failure, and nothing is retried: an enhanceImage call sends at most
\* one generateContent request, and after a failure nothing is sent until
\* the user clicks again.
C17_OneErrorNoRetry ==
    /\ [](Len(enhanceState.sent) <= 1)
    /\ [](FailedAndIdle =>
            /\ error = Outcome.message
            /\ error \in UserErrors
            /\ enhancedImage = NoImage
            /\ ~loading)
    /\ [][FailedAndIdle => (enhanceState' = enhanceState \/ Len(requests') = 1)]_vars

\* the remote call failed after its one request and the error is on display
C17_Witness ==
    /\ FailedAndIdle
    /\ error = "api:network"
    /\ Len(enhanceState.sent) = 1
    /\ ~loading

InlineImagesOf(parts) == {i \in 1..Len(parts) : parts[i].inlineData # "none"}

\* C20: every request sent has the product image as its first part and the
\* text instruction as its last; for the upload style it carries exactly
\* two inline images, product then background, and for any other style
\* exactly one.
C20_RequestParts ==
    (enhanceState.pc = "generateContent" /\ requests # <<>>) =>
        /\ Len(enhanceState.sent) = 1
        /\ LET parts == enhanceState.sent[1]
               call  == requests[1]
           IN  /\ parts[1] = RequestImage(call.file)
               /\ parts[Len(parts)] = RequestText(call.style)
               /\ InlineImagesOf(parts) = 1..(Len(parts) - 1)
               /\ IF call.style = "upload"
                  THEN /\ Len(parts) = 3
                       /\ call.backgroundImage # "none"
                       /\ parts[2] = RequestImage(call.backgroundImage)
                  ELSE Len(parts) = 2

\* an upload-style request in flight with product, background and text
C20_Witness ==
    /\ enhanceState.pc = "generateContent"
    /\ requests # <<>>
    /\ requests[1].style = "upload"
    /\ Len(enhanceState.sent) = 1
    /\ enhanceState.sent[1] = <<RequestImage(requests[1].file), RequestImage("b1"),
                                RequestText("upload")>>

(***************************************************************************)
(* A compositing stage that rejects.                                       *)
(***************************************************************************)
\* an applyTitle or applyWatermark await of handleEnhanceClick rejects
StageFails ==
    /\ EnhanceClickFails
    /\ \E i \in 1..Len(requests) :
        /\ requests[i].pc \in {"applyTitle", "applyWatermark"}
        /\ requests' = RemoveAt(requests, i)

\* the rejected run sets no image and an error banner is on display after it
FailureShown ==
    /\ error' # "none"
    /\ finalImage' = finalImage
    /\ enhancedImage' = enhancedImage

\* C19: whenever applyTitle or applyWatermark rejects during finalization,
\* in processImageFinalization or in handleEnhanceClick, the run sets no
\* final image and an error banner is shown.
C19_CompositingFailureShown ==
    [][(FinalizationRejects \/ StageFails) => FailureShown]_vars

\* the same for the awaits of handleEnhanceClick alone, whose catch block
\* sets the banner
C19_ShownByHandleEnhanceClick == [][StageFails => FailureShown]_vars

(***************************************************************************)
(* Object URLs are released.                                               *)
(***************************************************************************)
\* the URLs the three preview states hold
ReferencedUrls ==
    {objectUrls.previewUrl, objectUrls.backgroundPreviewUrl,
     objectUrls.watermarkPreviewUrl} \ {NoUrl}

\* the watermark URLs of the applyWatermark call created and not revoked
WatermarkUrlsAlive == wmOut.urlsCreated - wmOut.urlsRevoked

\* C18: every object URL that is no longer referenced has been revoked: the
\* live preview URLs are among the (at most three) URLs the preview states
\* hold, whatever was selected before; applyWatermark has at most one URL
\* alive, only while its watermark image is loading, and none once the call
\* has settled, resolved or rejected.
C18_ObjectUrlsReleased ==
    /\ objectUrls.live \subseteq ReferencedUrls
    /\ Cardinality(objectUrls.live) <= 3
    /\ WatermarkUrlsAlive \in {0, 1}
    /\ WatermarkUrlsAlive = 1 <=> wmOut.status = "loadingWatermark"
    /\ wmOut.status \in {"resolved", "rejected"} =>
          wmOut.urlsRevoked = wmOut.urlsCreated

\* files were chosen again and again, and the applyWatermark call failed
\* after creating its URL: all but the newest preview URL are gone
C18_Witness ==
    /\ objectUrls.created = MaxUrls
    /\ objectUrls.live = {MaxUrls}
    /\ wmOut.status = "rejected"
    /\ wmOut.urlsCreated = 1
    /\ wmOut.urlsRevoked = 1

(***************************************************************************)
(* The persisted record and the derived views.                             *)
(***************************************************************************)
\* the step stores a record (setItem), rather than removing the stored text
RecordWritten == storage' # storage /\ storage'.kind # "absent"

\* C21: every record the App writes (the migration of part_001:120-130 and
\* incrementUsage, 152-166) holds the fields total and dailyCounts and no
\* other; the displayed views are never read from storage: they are what
\* calculateStats gives for the stored record at the time they were computed.
C21_OnlyTotalAndDailyCounts ==
    /\ [][RecordWritten => (storage'.kind = "stats" /\ storage'.today = NoToday)]_vars
    /\ [](mounted => usageStats = calculateStats(storage, statsAt))

\* an old-shape record was migrated and a later enhancement was counted
C21_Witness ==
    /\ mounted
    /\ storage0.kind = "old"
    /\ storage.kind = "stats"
    /\ storage.today = NoToday
    /\ TotalCalls = 1
    /\ storage.total = storage0.total + 1

(***************************************************************************)
(* The derived views, by calendar days.                                    *)
(***************************************************************************)
\* the local calendar date n days before the current one
DaysAgo(n) == CivilFromDays(LocalDay(now) - n)

\* the stored counts of the dates in the set
CountsOn(dates) ==
    SumCounts(DailyCountsOf(storage), DOMAIN DailyCountsOf(storage) \cap dates)

\* C23: the views calculateStats returns for the stored mapping: last7Days
\* is the sum over today and the six calendar days before it, thisMonth the
\* sum over the dates of the current month and year, yesterday the count of
\* the calendar day before, total the stored total.
C23_DerivedViews ==
    mounted =>
        /\ usageStats.last7Days = CountsOn({DaysAgo(n) : n \in 0..6})
        /\ usageStats.thisMonth =
              CountsOn({d \in DOMAIN DailyCountsOf(storage) :
                            d[1] = DaysAgo(0)[1] /\ d[2] = DaysAgo(0)[2]})
        /\ usageStats.yesterday = CountsOn({DaysAgo(1)})
        /\ usageStats.total = storage.total

\* on 2024-01-01 local time with every date stored: the seven days reach
\* into December, the month holds today and tomorrow
C23_Witness ==
    /\ mounted
    /\ DaysAgo(0) = <<2024, 1, 1>>
    /\ Cardinality(DOMAIN DailyCountsOf(storage)) = 7
    /\ usageStats.thisMonth = 1 + 32
    /\ usageStats.yesterday = 2
    /\ usageStats.last7Days = 1 + 2 + 4 + 8
    /\ usageStats.total = 1000

(***************************************************************************)
(* The dates that key and compare the counts.                              *)
(***************************************************************************)
\* a mapping with one count, under the date
CountedOn(date) == StatsRecord(1, [d \in {date} |-> 1])

\* incrementUsage writes its count under the local date, and calculateStats
\* reads today's count from the local date
CountersUseLocalDate ==
    /\ DOMAIN DailyCountsOf(Incremented(Absent, now)) = {LocalCivil(now)}
    /\ calculateStats(CountedOn(LocalCivil(now)), now).today = 1

\* the migration takes a stored date for the current one when it is the
\* local date
MigrationUsesLocalDate ==
    DOMAIN DailyCountsOf(Migrated(OldRecord(LocalCivil(now), 1, 1), now)) = {LocalCivil(now)}

\* C24: at every instant and in every timezone the key incrementUsage
\* writes, the key calculateStats reads for today and the current date of
\* the migration are the same date, the local calendar date.
C24_AllDatesLocal == CountersUseLocalDate /\ MigrationUsesLocalDate

\* the same for incrementUsage and calculateStats alone
C24_CountersKeyedByLocalDate == CountersUseLocalDate

(***************************************************************************)
(* handleEnhance refuses.                                                  *)
(***************************************************************************)
\* no source image, or the upload style without a background image
NothingToEnhance ==
    \/ imageFile = "none"
    \/ (backgroundStyle = "upload" /\ backgroundImageFile = "none")

\* C25: handleEnhance called with no source image, or with the upload style
\* and no background image, sets an error message and returns: no request
\* is sent, loading is not set, and the enhanced image, the final image and
\* the usage counters stay as they are.
C25_RefusedWithoutRequest ==
    [][(HandleEnhance /\ NothingToEnhance) =>
          /\ error' # "none"
          /\ requests' = requests
          /\ submitted' = submitted
          /\ ~loading'
          /\ enhancedImage' = enhancedImage
          /\ finalImage' = finalImage
          /\ storage' = storage
          /\ usageStats' = usageStats]_vars

\* after a finished enhancement the style was switched to upload and the
\* button clicked with no background chosen: the images are still shown
C25_Witness ==
    /\ mounted
    /\ error = "noBackground"
    /\ backgroundStyle = "upload"
    /\ backgroundImageFile = "none"
    /\ enhancedImage # NoImage
    /\ finalImage # NoImage
    /\ requests = <<>>
    /\ submitted = 1
    /\ ~loading

(***************************************************************************)
(* The final image and the images it is made from.                         *)
(***************************************************************************)
\* C26: a final image on display was composited from the enhanced image the
\* App holds: with no enhanced image there is no final image, also when a
\* finalization call that started earlier ends afterwards.
C26_FinalFromHeldEnhanced ==
    /\ enhancedImage = NoImage => finalImage = NoImage
    /\ finalImage # NoImage => finalImage.src = enhancedImage.src

\* the final image on display was composited from the held enhanced image
\* with the watermark setting as it is now
FinalIsLatest ==
    /\ finalImage # NoImage
    /\ finalImage.src = enhancedImage.src
    /\ finalImage.wmSelected = watermarkFile

\* C27: the result of a finalization call started with the latest settings
\* is never overwritten by a call started with older settings: a final image
\* composited with the current watermark setting is only replaced by one
\* composited with the setting current at that time.
C27_LatestSettingsWin ==
    [][(FinalIsLatest /\ finalImage' # finalImage /\ finalImage' # NoImage)
          => finalImage'.wmSelected = watermarkFile']_vars

(***************************************************************************)
(* The total and the views, from empty storage.                            *)
(***************************************************************************)
\* the views calculateStats gives now for the stored record
ViewsNow == calculateStats(storage, now)

\* C28: started with nothing stored, after any number of incrementUsage
\* calls on days that never go back the stored total is the sum of the daily
\* counts, and the views, as displayed and as computed now, satisfy
\* today <= last7Days <= total and thisMonth <= total.
C28_TotalIsSumOfDays ==
    (mounted /\ storage0 = Absent) =>
        /\ TotalOf(storage) = SumCounts(DailyCountsOf(storage), DOMAIN DailyCountsOf(storage))
        /\ \A views \in {usageStats, ViewsNow} :
              /\ views.today <= views.last7Days
              /\ views.last7Days <= views.total
              /\ views.thisMonth <= views.total

\* four enhancements on three different days, the last one counted today
C28_Witness ==
    /\ mounted
    /\ storage0 = Absent
    /\ storage.total = MaxCalls
    /\ Cardinality(DOMAIN DailyCountsOf(storage)) = 3
    /\ usageStats.today >= 1
    /\ usageStats.last7Days > usageStats.today
    /\ usageStats.thisMonth < usageStats.total

(***************************************************************************)
(* Preview URLs on display.                                                *)
(***************************************************************************)
\* C29: the URL of every preview on display is valid: selecting or
\* replacing one of the three files, or changing the background style,
\* revokes the URL it replaces and no URL a preview state still holds.
C29_DisplayedPreviewsValid == ReferencedUrls \subseteq objectUrls.live

(***************************************************************************)
(* The enhanced image and the selected file.                               *)
(***************************************************************************)
\* C30: the enhanced image the first App component holds was generated from
\* the source file that is selected now, also when the file was changed
\* while the request was outstanding.
C30_EnhancedFromSelectedFile ==
    (appVersion = 1 /\ enhancedImage # NoImage) => enhancedImage.src = imageFile

(***************************************************************************)
(* Failures of the compositing calls.                                      *)
(***************************************************************************)
TitleSettled == titleOut.status \in {"resolved", "rejected"}
WatermarkSettled == wmOut.status \in {"resolved", "rejected"}

\* the promise of applyTitle, of applyWatermark, is rejected with the error
TitleRejectedWith(err) == titleOut.status = "rejected" /\ titleOut.error = err
WatermarkRejectedWith(err) == wmOut.status = "rejected" /\ wmOut.error = err

\* C22: when the base image, or the watermark image, does not decode, the
\* promise of applyTitle or applyWatermark is rejected with a load error;
\* when the images decode and the canvas gives no 2D context it is rejected
\* with a context error; in neither case is it ever resolved.
C22_FailuresReject ==
    /\ (~titleCall.loads \/ ~titleCall.hasContext) => titleOut.status # "resolved"
    /\ (TitleSettled /\ ~titleCall.loads) => TitleRejectedWith("load")
    /\ (TitleSettled /\ titleCall.loads /\ ~titleCall.hasContext)
          => TitleRejectedWith("context")
    /\ (~wmCall.baseLoads \/ ~wmCall.wmLoads \/ ~wmCall.hasContext)
          => wmOut.status # "resolved"
    /\ (WatermarkSettled /\ (~wmCall.baseLoads \/ ~wmCall.wmLoads))
          => WatermarkRejectedWith("load")
    /\ (WatermarkSettled /\ wmCall.baseLoads /\ wmCall.wmLoads /\ ~wmCall.hasContext)
          => WatermarkRejectedWith("context")

\* applyTitle found no 2D context, and the watermark image of applyWatermark
\* did not decode after the base image had
C22_Witness ==
    /\ titleCall.loads /\ ~titleCall.hasContext
    /\ TitleRejectedWith("context")
    /\ wmCall.baseLoads /\ ~wmCall.wmLoads
    /\ WatermarkRejectedWith("load")
    /\ wmOut.urlsCreated = 1

=============================================================================
